---- MODULE Spec2Model ----
(***************************************************************************)
(* UltraRDP: the wire protocol (protocol/protocol.go, protocol/helpers.go), *)
(* the server session and capture/dispatch loop (server/server.go,          *)
(* server/macos_capture.go) and the client receive path and frame store    *)
(* (client/client.go).                                                      *)
(*                                                                          *)
(* Number representation.  TLC's integers are 32-bit signed, so a Go       *)
(* uint32 is kept as a pair <<hi, lo>> of 16-bit halves and a Go int64 as  *)
(* four 16-bit limbs <<l3, l2, l1, l0>> whose top limb is signed.  All     *)
(* arithmetic on them wraps exactly as the Go types do.                    *)
(***************************************************************************)
EXTENDS Integers, Sequences, FiniteSets, TLC

VARIABLES
    \* ---- protocol layer: one writer, one pipe, one reader ----
    cPacket,    \* a packet handed to EncodePacket on its own
    cPackets,   \* the packets the writer encodes onto the pipe, in order
    cConfig,    \* a MonitorConfig handed to EncodeMonitorConfig
    cWritten,   \* how many of cPackets EncodePacket has written
    cPipe,      \* bytes written and not yet delivered to the reader
    cDelivered, \* how many bytes have been delivered to the reader in all
    cAvail,     \* bytes delivered to the reader and not yet consumed
    cEOF,       \* the stream was cut: no byte follows the delivered ones
    dField,     \* the header/payload field DecodePacket is reading
    dBuf,       \* zero-initialised buffer of the field being read
    dGot,       \* how many bytes of dBuf io.ReadFull has filled
    dPacket,    \* the packet DecodePacket is filling
    dConsumed,  \* bytes consumed by the DecodePacket call in progress
    cOut,       \* what successive DecodePacket calls returned
    dErr,       \* a DecodePacket call returned (nil, err)
    rtPacket,   \* result of DecodePacket on EncodePacket's bytes
    rtConfig,   \* result of DecodeMonitorConfig on EncodeMonitorConfig's bytes
    \* ---- server ----
    monitors,      \* s.monitors
    clients,       \* s.clients: connection -> session (active, monitorMap, ...)
    clientsMutex,  \* 0 (unlocked), or the capture worker holding s.clientsMutex
    hpc,           \* per connection: where its handleClient goroutine stands
    hLocal,        \* per connection: locals of handleClient / mapMonitors
    wpc,           \* per monitor: where its captureMonitor goroutine stands
    wTodo,         \* per monitor: sessions the range loop has yet to visit
    wCur,          \* per monitor: the session the range loop is writing to
    wFailed,       \* per monitor: sessions whose write failed in the pass in progress
    \* ---- connections ----
    dialled,       \* per connection: its peer has dialled this server
    toClient,      \* per connection: packets written towards the peer, unread
    toServer,      \* per connection: packets written by the peer, unread
    peerClosed,    \* per connection: the peer closed its end
    connClosed,    \* per connection: the server called conn.Close()
    \* ---- client ----
    cliPhase,        \* "off", "handshake", "reply", "running", "failed", "ended"
    serverMonitors,  \* c.serverMonitors
    localMonitors,   \* c.localMonitors
    monitorMap,      \* c.monitorMap
    frameBuffers,    \* c.frameBuffers
    \* ---- environment ----
    rawSent,       \* packets the hand-driven peer has sent
    foreignSent,   \* packets the foreign endpoint has sent
    \* ---- history ----
    firstToClient, \* per connection: the first packet the server wrote on it
    firstRead,     \* per connection: the first packet the server read from it
    cliFirst,      \* the first packet the client read
    everMapped,    \* per connection: server ids ever put into the session's map
    cliLast,       \* the packet the client's receive loop handled last
    \* ---- client frame store, by reference ----
    fHeap,         \* the byte slices allocated so far, by allocation number
    fStore,        \* c.frameBuffers[id]: slice header (buf, len) of the entry
    frameMutex,    \* holder of c.frameMutex: "free", "net" or "display"
    net,           \* the receive goroutine inside updateFrameBuffer
    disp,          \* the display loop reading one window's frame
    \* ---- one connection, write by write ----
    wire,          \* the Write calls made on the connection, in order
    enc,           \* per writer: its EncodePacket call in progress
    encMutex,      \* holder of s.clientsMutex among the writers, or "free"
    \* ---- shutdown ----
    stopPc,        \* Server.Stop: "running", "closing" or "returned"
    acceptPc,      \* Server.Start's accept loop: "accept" or "returned"
    cliStopped,    \* c.stopped of the client
    dispPc,        \* the client's display loop: "off", "head", "body", "returned"
                   \* ("panic", "killed": ended by a panic of its own, of another)
    \* ---- capture turns ----
    cap            \* per capture worker: its monitor, frameCount, and what its
                   \* last turn of the capture loop did

codecVars == <<cPacket, cPackets, cConfig, cWritten, cPipe, cDelivered, cAvail,
               cEOF, dField, dBuf, dGot, dPacket, dConsumed, cOut, dErr,
               rtPacket, rtConfig>>


\* ------------------------------------------------------------------------
\* Bounds of the model
\* ------------------------------------------------------------------------
MaxPackets == 2   \* packets per stream
MaxChunk == 2     \* largest number of bytes one delivery or one Read moves
MaxMonitors == 2  \* monitors in a MonitorConfig
MaxData == 52     \* bytes behind the count in a payload given to DecodeMonitorConfig
MaxBuffer == 64   \* bytes kept of a payload buffer: more than any stream holds,
                  \* so that a longer buffer is never filled

\* ------------------------------------------------------------------------
\* Fixed-width numbers
\* ------------------------------------------------------------------------
ByteMod == 2 ^ 8
Half == ByteMod * ByteMod

Min(a, b) == IF a < b THEN a ELSE b

\* uint32(n) for a small natural n
U32(n) == <<(n \div Half) % Half, n % Half>>

\* int(v) for a uint32 below 2^31
U32ToNat(v) == v[1] * Half + v[2]

U32Less(a, b) == a[1] < b[1] \/ (a[1] = b[1] /\ a[2] < b[2])

Zeros(n) == [i \in 1..n |-> 0]

SubSeqFrom(s, from) == SubSeq(s, from, Len(s))

\* binary.LittleEndian.PutUint16 of one 16-bit limb
LimbBytes(x) == <<x % ByteMod, x \div ByteMod>>

LimbOf(b, at) == b[at] + ByteMod * b[at + 1]

\* binary.LittleEndian.PutUint32 / Uint32ToBytes
PutUint32(v) == LimbBytes(v[2]) \o LimbBytes(v[1])

\* binary.LittleEndian.Uint32
Uint32(b) == <<LimbOf(b, 3), LimbOf(b, 1)>>

\* BytesToUint32: zero for fewer than 4 bytes
BytesToUint32(b) == IF Len(b) < 4 THEN U32(0) ELSE Uint32(b)

Uint32ToBytes(v) == PutUint32(v)

\* binary.Write of an int64: two's complement, little-endian
PutInt64(t) ==
    LimbBytes(t[4]) \o LimbBytes(t[3]) \o LimbBytes(t[2])
        \o LimbBytes((t[1] + Half) % Half)

\* binary.Read of an int64 that forgets the sign of the top limb
Int64Unsigned(b) == <<LimbOf(b, 7), LimbOf(b, 5), LimbOf(b, 3), LimbOf(b, 1)>>

\* binary.Read into an int64
Int64(b) ==
    LET top == LimbOf(b, 7)
    IN  <<IF top >= Half \div 2 THEN top - Half ELSE top,
          LimbOf(b, 5), LimbOf(b, 3), LimbOf(b, 1)>>

\* ------------------------------------------------------------------------
\* Packets (protocol.go)
\* ------------------------------------------------------------------------
PacketTypeHandshake == 1
PacketTypeVideoFrame == 2
PacketTypeAudioFrame == 3
PacketTypeMouseMove == 4
PacketTypeMouseButton == 5
PacketTypeKeyboard == 6
PacketTypeMonitorConfig == 7
PacketTypePing == 8
PacketTypePong == 9
PacketTypeQualityControl == 10

PacketTypes == PacketTypeHandshake..PacketTypeQualityControl

TypeSize == 1
TimestampSize == 8
LengthSize == 4
HeaderSize == TypeSize + TimestampSize + LengthSize

NilPacket == [Type |-> 0, Timestamp |-> <<0, 0, 0, 0>>, Length |-> U32(0),
              Payload |-> <<>>]

\* The bytes EncodePacket hands to the writer, in order
EncodePacket(packet) ==
    <<packet.Type>> \o PutInt64(packet.Timestamp) \o PutUint32(packet.Length)
        \o (IF packet.Length # U32(0) THEN packet.Payload ELSE <<>>)

\* DecodePacket on a reader that holds exactly the bytes r and then EOF:
\* the packet, the error and the number of bytes consumed
DecodePacket(r) ==
    LET tsAt == TypeSize + 1
        lenAt == tsAt + TimestampSize
        payAt == lenAt + LengthSize
    IN  IF Len(r) < HeaderSize
        THEN [err |-> TRUE, packet |-> NilPacket, consumed |-> Len(r)]
        ELSE LET length == Uint32(SubSeq(r, lenAt, payAt - 1))
                 n == U32ToNat(length)
             IN  IF Len(r) < HeaderSize + n
                 THEN [err |-> TRUE, packet |-> NilPacket, consumed |-> Len(r)]
                 ELSE [err |-> FALSE,
                       packet |-> [Type |-> r[1],
                                   Timestamp |-> Int64(SubSeq(r, tsAt, lenAt - 1)),
                                   Length |-> length,
                                   Payload |-> SubSeq(r, payAt, payAt + n - 1)],
                       consumed |-> HeaderSize + n]

\* NewPacket with the clock reading now
NewPacket(packetType, payload, now) ==
    [Type |-> packetType, Timestamp |-> now, Length |-> U32(Len(payload)),
     Payload |-> payload]

\* ------------------------------------------------------------------------
\* Monitor configurations (protocol.go)
\* ------------------------------------------------------------------------
CountSize == 4
MonitorInfoSize == 24
PrimaryOffset == 20

\* 4 + count*24 in uint32 arithmetic (wraps modulo 2^32)
MonitorConfigSize(count) ==
    LET lo == MonitorInfoSize * count[2] + CountSize
        hi == MonitorInfoSize * count[1] + (lo \div Half)
    IN  <<hi % Half, lo % Half>>

\* What a Go slice or index expression out of range does
PanicBytes == <<"panic">>

EncodeMonitorInfo(monitor) ==
    PutUint32(monitor.ID) \o PutUint32(monitor.Width) \o PutUint32(monitor.Height)
        \o PutUint32(monitor.PositionX) \o PutUint32(monitor.PositionY)
        \o <<IF monitor.Primary THEN 1 ELSE 0, 0, 0, 0>>

RECURSIVE EncodeMonitors(_)
EncodeMonitors(infos) ==
    IF infos = <<>> THEN <<>>
    ELSE EncodeMonitorInfo(Head(infos)) \o EncodeMonitors(Tail(infos))

\* EncodeMonitorConfig: a zeroed buffer of 4 + MonitorCount*24 bytes, the count,
\* then one record per element of Monitors
EncodeMonitorConfig(config) ==
    LET size == MonitorConfigSize(config.MonitorCount)
        body == PutUint32(config.MonitorCount) \o EncodeMonitors(config.Monitors)
    IN  IF size[1] = 0 /\ Len(body) <= size[2]
        THEN body \o Zeros(size[2] - Len(body))
        ELSE PanicBytes

\* A decoder that does not advance the offset after Height, and so reads
\* PositionX where Height lies
DecodeMonitorInfoNoAdvance(data, offset) ==
    [ID |-> Uint32(SubSeq(data, offset + 1, offset + 4)),
     Width |-> Uint32(SubSeq(data, offset + 5, offset + 8)),
     Height |-> Uint32(SubSeq(data, offset + 9, offset + 12)),
     PositionX |-> Uint32(SubSeq(data, offset + 9, offset + 12)),
     PositionY |-> Uint32(SubSeq(data, offset + 17, offset + 20)),
     Primary |-> data[offset + PrimaryOffset + 1] = 1]

\* One MonitorInfo read at the 0-based offset
DecodeMonitorInfo(data, offset) ==
    [ID |-> Uint32(SubSeq(data, offset + 1, offset + 4)),
     Width |-> Uint32(SubSeq(data, offset + 5, offset + 8)),
     Height |-> Uint32(SubSeq(data, offset + 9, offset + 12)),
     PositionX |-> Uint32(SubSeq(data, offset + 13, offset + 16)),
     PositionY |-> Uint32(SubSeq(data, offset + 17, offset + 20)),
     Primary |-> data[offset + PrimaryOffset + 1] = 1]

NilConfig == [MonitorCount |-> U32(0), Monitors |-> <<>>]

\* DecodeMonitorConfig: err is "nil", "ErrUnexpectedEOF" or, where the loop
\* indexes past the data, "panic"
DecodeMonitorConfig(data) ==
    IF Len(data) < CountSize
    THEN [err |-> "ErrUnexpectedEOF", config |-> NilConfig]
    ELSE LET count == Uint32(SubSeq(data, 1, CountSize))
             expectedSize == MonitorConfigSize(count)
             inBounds ==
                 \/ count = U32(0)
                 \/ /\ count[1] = 0
                    /\ CountSize + MonitorInfoSize * (count[2] - 1) + PrimaryOffset
                           < Len(data)
         IN  IF U32Less(U32(Len(data)), expectedSize)
             THEN [err |-> "ErrUnexpectedEOF", config |-> NilConfig]
             ELSE IF ~inBounds
             THEN [err |-> "panic", config |-> NilConfig]
             ELSE [err |-> "nil",
                   config |->
                       [MonitorCount |-> count,
                        Monitors |->
                            [i \in 1..count[2] |->
                                DecodeMonitorInfo(
                                    data, CountSize + MonitorInfoSize * (i - 1))]]]

\* ------------------------------------------------------------------------
\* Inputs of the protocol layer
\* ------------------------------------------------------------------------
SeqsUpTo(S, n) == UNION {[1..k -> S] : k \in 0..n}

TimestampSamples ==
    { <<0, 0, 0, 0>>,                        \* 0
      <<0, 0, 0, 1>>,                        \* 1
      <<-1, 65535, 65535, 65535>>,           \* -1
      <<-32768, 0, 0, 0>>,                   \* math.MinInt64
      <<32767, 65535, 65535, 65535>>,        \* math.MaxInt64
      <<6231, 4660, 22136, 255>>,            \* a wall-clock reading
      <<-2, 1, 256, 513>> }

PayloadSamples ==
    { <<>>, <<0>>, <<255, 216, 7>>, <<1, 0, 0, 0, 255, 216>> }

AllPackets ==
    { NewPacket(t, payload, now) :
          t \in PacketTypes, payload \in PayloadSamples, now \in TimestampSamples }

StreamPackets ==
    { NewPacket(PacketTypePing, <<>>, <<0, 0, 0, 1>>),
      NewPacket(PacketTypeVideoFrame, <<1, 0, 0, 0, 255, 216>>,
                <<-1, 65535, 65535, 65535>>),
      NewPacket(PacketTypeQualityControl, <<50>>, <<6231, 4660, 22136, 255>>) }

StreamInputs == SeqsUpTo(StreamPackets, MaxPackets) \ {<<>>}

MonitorSamples ==
    { [ID |-> U32(1), Width |-> U32(1920), Height |-> U32(1080),
       PositionX |-> U32(0), PositionY |-> U32(0), Primary |-> TRUE],
      [ID |-> U32(2), Width |-> U32(2560), Height |-> U32(1440),
       PositionX |-> <<65535, 62976>>, PositionY |-> U32(0), Primary |-> FALSE],
      [ID |-> U32(1), Width |-> U32(0), Height |-> <<1, 0>>,
       PositionX |-> U32(1920), PositionY |-> <<32768, 1>>, Primary |-> FALSE],
      [ID |-> <<43981, 4660>>, Width |-> <<65535, 65535>>, Height |-> U32(256),
       PositionX |-> U32(255), PositionY |-> U32(65535), Primary |-> TRUE] }

ConfigInputs ==
    { [MonitorCount |-> U32(Len(ms)), Monitors |-> ms] :
          ms \in SeqsUpTo(MonitorSamples, MaxMonitors) }

\* Bytes that follow a packet on the wire in the single-packet round trip
Trailer == <<170, 85>>

NoResult == [err |-> "none"]

\* ========================================================================
\* The running system: server, capture workers, connections, client
\* ========================================================================
MaxDisplays == 2      \* displays attached to the server or to the client
MaxQueue == 1         \* packets a connection holds in flight in one direction
MaxRawSends == 2      \* packets the hand-driven peer sends
MaxForeignSends == 3  \* packets a foreign endpoint sends to the client

\* The two connections the listener may accept: the one dialled by
\* client.NewClient and one dialled by a peer that speaks the wire format
\* but follows no protocol order
Conns == {"client", "raw"}

\* time.Now().UnixNano() at NewPacket; no receiver reads the timestamp
Now == <<6231, 4660, 22136, 255>>

Pkt(packetType, payload) == NewPacket(packetType, payload, Now)

\* Go maps as functions
EmptyMap == [k \in {} |-> U32(0)]
MapPut(map, k, v) ==
    [x \in (DOMAIN map) \cup {k} |-> IF x = k THEN v ELSE map[x]]
\* delete that empties the map
MapDeleteAll(map, k) == [x \in {} |-> map[x]]

MapDelete(map, k) == [x \in (DOMAIN map) \ {k} |-> map[x]]

\* detectMonitors: one MonitorInfo per display, ids 1.., the first primary;
\* the displays stand side by side
DetectMonitors(displays) ==
    [MonitorCount |-> U32(displays),
     Monitors |-> [i \in 1..displays |->
                      [ID |-> U32(i), Width |-> U32(1920), Height |-> U32(1080),
                       PositionX |-> U32(1920 * (i - 1)), PositionY |-> U32(0),
                       Primary |-> i = 1]]]

\* JPEG start-of-image marker
SOI == <<255, 216>>

\* What jpeg.Encode leaves in buf for a capture of the monitor
EncodedImage(monitor) == SOI \o <<monitor.ID[2] % ByteMod>>

\* The encoded image alone
FrameDataBare(monitor) == EncodedImage(monitor)

\* frameData of captureMonitor: the monitor id, then the encoded image
FrameData(monitor) == Uint32ToBytes(monitor.ID) \o EncodedImage(monitor)

\* for i := uint32(0); i < a.MonitorCount && i < b.MonitorCount; i++
MapLoopShort(serverConfig, peerConfig, i) ==
    /\ U32Less(U32(i + 1), serverConfig.MonitorCount)
    /\ U32Less(U32(i + 1), peerConfig.MonitorCount)

MapLoopCond(serverConfig, peerConfig, i) ==
    /\ U32Less(U32(i), serverConfig.MonitorCount)
    /\ U32Less(U32(i), peerConfig.MonitorCount)

\* handleClient (earlier revision): the map built on the session before it is
\* registered
RECURSIVE MonitorMapFrom(_, _, _, _)
MonitorMapFrom(serverConfig, clientMonitors, i, map) ==
    IF ~MapLoopCond(serverConfig, clientMonitors, i) THEN map
    ELSE MonitorMapFrom(serverConfig, clientMonitors, i + 1,
                        MapPut(map, serverConfig.Monitors[i + 1].ID,
                               clientMonitors.Monitors[i + 1].ID))

\* A loop that maps nothing
MappingNone(server, local, i, map, buffers) ==
    [monitorMap |-> map, frameBuffers |-> buffers]

\* Client.createMonitorMapping: a new map, and an empty frame buffer under
\* every mapped local id; buffers of other ids stay
RECURSIVE MappingFrom(_, _, _, _, _)
MappingFrom(server, local, i, map, buffers) ==
    IF ~MapLoopCond(server, local, i)
    THEN [monitorMap |-> map, frameBuffers |-> buffers]
    ELSE MappingFrom(server, local, i + 1,
                     MapPut(map, server.Monitors[i + 1].ID, local.Monitors[i + 1].ID),
                     MapPut(buffers, local.Monitors[i + 1].ID, <<>>))

\* The new pairs are added to the map the client already has
KeepMonitorMapping(server, local, buffers) ==
    MappingFrom(server, local, 0, monitorMap, buffers)

createMonitorMapping(server, local, buffers) ==
    MappingFrom(server, local, 0, EmptyMap, buffers)

\* packet.Payload[4:] kept whole
FrameDataWithPrefix(payload) == payload

\* frameData := packet.Payload[4:]
FrameDataOf(payload) == SubSeqFrom(payload, 5)

\* A frame for an id without a mapping is kept under that id
updateFrameBufferAnyID(map, buffers, serverMonitorID, frameData) ==
    MapPut(buffers, IF serverMonitorID \in DOMAIN map THEN map[serverMonitorID]
                    ELSE serverMonitorID, frameData)

\* Client.updateFrameBuffer: the frame buffers after the call
updateFrameBuffer(map, buffers, serverMonitorID, frameData) ==
    IF serverMonitorID \notin DOMAIN map THEN buffers
    ELSE IF Len(frameData) < 2 \/ SubSeq(frameData, 1, 2) # SOI THEN buffers
    ELSE MapPut(buffers, map[serverMonitorID], frameData)

\* Client.handlePacket: serverMonitors, monitorMap and frameBuffers after it
handlePacket(packet, server, local, map, buffers) ==
    LET same == [serverMonitors |-> server, monitorMap |-> map,
                 frameBuffers |-> buffers]
    IN  IF packet.Type = PacketTypeVideoFrame
        THEN IF Len(packet.Payload) < 4 THEN same
             ELSE [same EXCEPT !.frameBuffers =
                      updateFrameBuffer(map, buffers,
                                        BytesToUint32(SubSeq(packet.Payload, 1, 4)),
                                        FrameDataOf(packet.Payload))]
        ELSE IF packet.Type = PacketTypeMonitorConfig
        THEN LET decoded == DecodeMonitorConfig(packet.Payload)
             IN  IF decoded.err # "nil" THEN same
                 ELSE LET m == createMonitorMapping(decoded.config, local, buffers)
                      IN  [serverMonitors |-> decoded.config,
                           monitorMap |-> m.monitorMap,
                           frameBuffers |-> m.frameBuffers]
        ELSE same

\* Client.updateFrameBuffer, earlier revision: whatever follows the monitor id
\* is stored under the mapped local id
updateFrameBufferEarlier(map, buffers, serverMonitorID, frameData) ==
    IF serverMonitorID \notin DOMAIN map THEN buffers
    ELSE MapPut(buffers, map[serverMonitorID], frameData)

\* Client.handlePacket, earlier revision
handlePacketEarlier(packet, server, local, map, buffers) ==
    LET same == [serverMonitors |-> server, monitorMap |-> map,
                 frameBuffers |-> buffers]
    IN  IF packet.Type = PacketTypeVideoFrame
        THEN IF Len(packet.Payload) < 4 THEN same
             ELSE [same EXCEPT !.frameBuffers =
                      updateFrameBufferEarlier(map, buffers,
                                               BytesToUint32(SubSeq(packet.Payload, 1, 4)),
                                               SubSeqFrom(packet.Payload, 5))]
        ELSE IF packet.Type = PacketTypeMonitorConfig
        THEN LET decoded == DecodeMonitorConfig(packet.Payload)
             IN  IF decoded.err # "nil" THEN same
                 ELSE LET m == createMonitorMapping(decoded.config, local, buffers)
                      IN  [serverMonitors |-> decoded.config,
                           monitorMap |-> m.monitorMap,
                           frameBuffers |-> m.frameBuffers]
        ELSE same

\* ---- inputs of the system ----
\* MonitorConfigs a hand-driven peer may send: none, one, two with the same
\* id, and one more monitor than the server has
RawMonitor(id) ==
    [ID |-> id, Width |-> U32(1280), Height |-> U32(720),
     PositionX |-> U32(0), PositionY |-> U32(0), Primary |-> FALSE]

RawConfigs ==
    { [MonitorCount |-> U32(Len(ids)), Monitors |-> [i \in DOMAIN ids |-> RawMonitor(ids[i])]] :
          ids \in { <<>>, <<U32(7)>>, <<U32(1), U32(1)>>,
                    [i \in 1..(MaxDisplays + 1) |-> U32(4 + i)] } }

\* A MonitorConfig payload cut short inside its first monitor
ShortConfig == <<1, 0, 0, 0, 9, 0>>

RawPackets ==
    { Pkt(PacketTypeMonitorConfig, EncodeMonitorConfig(c)) : c \in RawConfigs }
    \cup { Pkt(PacketTypeMonitorConfig, ShortConfig), Pkt(PacketTypePing, <<7>>) }

\* What an endpoint that is not this server may send to the client
ForeignPackets ==
    { Pkt(PacketTypeHandshake, EncodeMonitorConfig(DetectMonitors(n))) : n \in 1..MaxDisplays }
    \cup { Pkt(PacketTypeHandshake, ShortConfig),
           Pkt(PacketTypePong, <<7>>),
           Pkt(PacketTypeMonitorConfig, EncodeMonitorConfig(DetectMonitors(1))),
           Pkt(PacketTypeVideoFrame, Uint32ToBytes(U32(1)) \o SOI \o <<17, 34>>),
           Pkt(PacketTypeVideoFrame, Uint32ToBytes(U32(1)) \o SOI),
           Pkt(PacketTypeVideoFrame, Uint32ToBytes(U32(2)) \o SOI \o <<51>>),
           Pkt(PacketTypeVideoFrame, Uint32ToBytes(U32(9)) \o SOI \o <<68>>),
           Pkt(PacketTypeVideoFrame, Uint32ToBytes(U32(1)) \o <<216, 255, 85>>),
           Pkt(PacketTypeVideoFrame, <<1, 0>>) }

\* ---- state groups ----
srvVars == <<monitors, clients, clientsMutex, hpc, hLocal>>
netVars == <<dialled, toClient, toServer, peerClosed, connClosed>>
wrkVars == <<wpc, wTodo, wCur, wFailed>>
cliVars == <<cliPhase, serverMonitors, localMonitors, monitorMap, frameBuffers>>
envVars == <<rawSent, foreignSent>>
histVars == <<firstToClient, firstRead, cliFirst, everMapped, cliLast>>
sysVars == <<srvVars, netVars, wrkVars, cliVars, envVars, histVars>>
storeVars == <<fHeap, fStore, frameMutex, net, disp>>
wireVars == <<wire, enc, encMutex>>
stopVars == <<stopPc, acceptPc, cliStopped, dispPc>>
capVars == <<cap>>
vars == <<codecVars, sysVars, storeVars, wireVars, stopVars, capVars>>

\* Locals of a handleClient goroutine that has decoded no MonitorConfig yet
NoLocals == [clientMonitors |-> NilConfig, i |-> 0, mapped |-> FALSE, err |-> FALSE]

\* A session born with server monitor 1 already in its map
NewSessionMapped ==
    [active |-> TRUE, monitorMap |-> MapPut(EmptyMap, U32(1), U32(1)),
     qualityLevel |-> 80]

\* &Client{monitorMap: make(map[uint32]uint32), qualityLevel: 80, active: true}
NewSession == [active |-> TRUE, monitorMap |-> EmptyMap, qualityLevel |-> 80]

\* The capture goroutines: one per entry of s.monitors.Monitors
Workers == DOMAIN monitors.Monitors

\* The server after NewServer and the client after NewClient.  One peer has
\* dialled this server, the client or the hand-driven peer; or the client has
\* dialled a foreign endpoint and nobody has dialled the server.  With the
\* hand-driven peer connected no client has been created ("off").
SysInit ==
    /\ \/ /\ dialled = [c \in Conns |-> c = "client"]
          /\ monitors \in {DetectMonitors(n) : n \in 1..MaxDisplays}
          /\ localMonitors \in {DetectMonitors(n) : n \in 1..MaxDisplays}
          /\ cliPhase = "handshake"
       \/ /\ dialled = [c \in Conns |-> c = "raw"]
          /\ monitors = DetectMonitors(MaxDisplays)
          /\ localMonitors = DetectMonitors(1)
          /\ cliPhase = "off"
       \/ /\ dialled = [c \in Conns |-> FALSE]
          /\ monitors = DetectMonitors(1)
          /\ localMonitors \in {DetectMonitors(n) : n \in 1..MaxDisplays}
          /\ cliPhase = "handshake"
    /\ clients = [c \in {} |-> NewSession]
    /\ clientsMutex = 0
    /\ hpc = [c \in Conns |-> "idle"]
    /\ hLocal = [c \in Conns |-> NoLocals]
    /\ toClient = [c \in Conns |-> <<>>]
    /\ toServer = [c \in Conns |-> <<>>]
    /\ peerClosed = [c \in Conns |-> FALSE]
    /\ connClosed = [c \in Conns |-> FALSE]
    /\ wpc = [m \in DOMAIN monitors.Monitors |-> "gate"]
    /\ wTodo = [m \in DOMAIN monitors.Monitors |-> {}]
    /\ wCur = [m \in DOMAIN monitors.Monitors |-> "none"]
    /\ wFailed = [m \in DOMAIN monitors.Monitors |-> {}]
    /\ serverMonitors = NilConfig
    /\ monitorMap = EmptyMap
    /\ frameBuffers = EmptyMap
    /\ rawSent = 0
    /\ foreignSent = 0
    /\ firstToClient = [c \in Conns |-> NilPacket]
    /\ firstRead = [c \in Conns |-> NilPacket]
    /\ cliFirst = NilPacket
    /\ everMapped = [c \in Conns |-> {}]
    /\ cliLast = NilPacket

\* The system left out of a run of the protocol layer alone
SysIdle ==
    /\ monitors = NilConfig /\ clients = <<>> /\ clientsMutex = 0
    /\ hpc = <<>> /\ hLocal = <<>>
    /\ dialled = <<>> /\ toClient = <<>> /\ toServer = <<>>
    /\ peerClosed = <<>> /\ connClosed = <<>>
    /\ wpc = <<>> /\ wTodo = <<>> /\ wCur = <<>> /\ wFailed = <<>>
    /\ cliPhase = "off" /\ serverMonitors = NilConfig /\ localMonitors = NilConfig
    /\ monitorMap = <<>> /\ frameBuffers = <<>>
    /\ rawSent = 0 /\ foreignSent = 0
    /\ firstToClient = <<>> /\ firstRead = <<>> /\ cliFirst = NilPacket
    /\ everMapped = <<>> /\ cliLast = NilPacket

\* The by-reference frame store left out of a run
StoreIdle ==
    /\ fHeap = <<>> /\ fStore = <<>> /\ frameMutex = "free"
    /\ net = <<>> /\ disp = <<>>

\* The write-by-write view of one connection left out of a run
WireIdle == wire = <<>> /\ enc = <<>> /\ encMutex = "free"

\* Nobody calls Stop: the accept loop accepts, the display loop is not looked at
StopIdle ==
    /\ stopPc = "running" /\ acceptPc = "accept"
    /\ cliStopped = FALSE /\ dispPc = "off"

\* The capture turns left out of a run
CapIdle == cap = <<>>

\* The protocol-layer machine left out of a run of the system
CodecIdle ==
    /\ cPacket = NilPacket /\ cPackets = <<>> /\ cConfig = NilConfig
    /\ cWritten = 0 /\ cPipe = <<>> /\ cDelivered = 0 /\ cAvail = <<>>
    /\ cEOF = FALSE /\ dField = "Type" /\ dBuf = <<>> /\ dGot = 0
    /\ dPacket = NilPacket /\ dConsumed = 0 /\ cOut = <<>> /\ dErr = FALSE
    /\ rtPacket = NoResult /\ rtConfig = NoResult


\* ------------------------------------------------------------------------
\* The protocol layer as a machine: writer, pipe, reader
\* ------------------------------------------------------------------------
FieldSize(field, packet) ==
    CASE field = "Type" -> TypeSize
      [] field = "Timestamp" -> TimestampSize
      [] field = "Length" -> LengthSize
      [] field = "Payload" -> IF U32Less(packet.Length, U32(MaxBuffer))
                              THEN U32ToNat(packet.Length)
                              ELSE MaxBuffer

\* A reader that hands back whatever one Read returned
ReadOnceDone(got, need) == got >= 1

\* io.ReadFull returns once the buffer is full
ReadFullDone(got, need) == got = need

CodecInit ==
    /\ \/ cPacket \in AllPackets /\ cPackets = <<>> /\ cConfig = NilConfig
       \/ cPacket = NilPacket /\ cPackets \in StreamInputs /\ cConfig = NilConfig
       \/ cPacket = NilPacket /\ cPackets = <<>> /\ cConfig \in ConfigInputs
    /\ cWritten = 0
    /\ cPipe = <<>>
    /\ cDelivered = 0
    /\ cAvail = <<>>
    /\ cEOF = FALSE
    /\ dField = "Type"
    /\ dBuf = Zeros(TypeSize)
    /\ dGot = 0
    /\ dPacket = NilPacket
    /\ dConsumed = 0
    /\ cOut = <<>>
    /\ dErr = FALSE
    /\ rtPacket = NoResult
    /\ rtConfig = NoResult
    /\ SysIdle
    /\ StoreIdle
    /\ WireIdle
    /\ StopIdle /\ CapIdle

\* DecodePacket(EncodePacket(p)) with further bytes behind it in the reader
RoundTripPacket ==
    /\ cPacket # NilPacket
    /\ rtPacket = NoResult
    /\ rtPacket' = DecodePacket(EncodePacket(cPacket) \o Trailer)
    /\ UNCHANGED <<cPacket, cPackets, cConfig, cWritten, cPipe, cDelivered, cAvail,
                   cEOF, dField, dBuf, dGot, dPacket, dConsumed, cOut, dErr,
                   rtConfig,
                   sysVars, storeVars, wireVars, stopVars, capVars>>

\* DecodeMonitorConfig(EncodeMonitorConfig(c))
RoundTripConfig ==
    /\ cPacket = NilPacket /\ cPackets = <<>>
    /\ rtConfig = NoResult
    /\ rtConfig' = DecodeMonitorConfig(EncodeMonitorConfig(cConfig))
    /\ UNCHANGED <<cPacket, cPackets, cConfig, cWritten, cPipe, cDelivered, cAvail,
                   cEOF, dField, dBuf, dGot, dPacket, dConsumed, cOut, dErr,
                   rtPacket,
                   sysVars, storeVars, wireVars, stopVars, capVars>>

\* The writer encodes the next packet onto the pipe
WritePacket ==
    /\ ~cEOF
    /\ cWritten < Len(cPackets)
    /\ cPipe' = cPipe \o EncodePacket(cPackets[cWritten + 1])
    /\ cWritten' = cWritten + 1
    /\ UNCHANGED <<cPacket, cPackets, cConfig, cDelivered, cAvail, cEOF, dField,
                   dBuf, dGot, dPacket, dConsumed, cOut, dErr, rtPacket, rtConfig,
                   sysVars, storeVars, wireVars, stopVars, capVars>>

\* The pipe delivers the next n bytes to the reader
Deliver(n) ==
    /\ n <= Len(cPipe)
    /\ cAvail' = cAvail \o SubSeq(cPipe, 1, n)
    /\ cPipe' = SubSeqFrom(cPipe, n + 1)
    /\ cDelivered' = cDelivered + n
    /\ UNCHANGED <<cPacket, cPackets, cConfig, cWritten, cEOF, dField, dBuf, dGot,
                   dPacket, dConsumed, cOut, dErr, rtPacket, rtConfig,
                   sysVars, storeVars, wireVars, stopVars, capVars>>

\* The stream is cut: what was not delivered is lost and nothing follows
Cut ==
    /\ ~cEOF
    /\ cPackets # <<>>
    /\ cEOF' = TRUE
    /\ cPipe' = <<>>
    /\ UNCHANGED <<cPacket, cPackets, cConfig, cWritten, cDelivered, cAvail, dField,
                   dBuf, dGot, dPacket, dConsumed, cOut, dErr, rtPacket, rtConfig,
                   sysVars, storeVars, wireVars, stopVars, capVars>>

\* The field just filled, stored into the packet
StoreField(packet, field, buf) ==
    CASE field = "Type" -> [packet EXCEPT !.Type = buf[1]]
      [] field = "Timestamp" -> [packet EXCEPT !.Timestamp = Int64(buf)]
      [] field = "Length" -> [packet EXCEPT !.Length = Uint32(buf)]
      [] field = "Payload" -> [packet EXCEPT !.Payload = buf]

\* The field DecodePacket reads next; "return" when the packet is complete
NextField(packet, field) ==
    CASE field = "Type" -> "Timestamp"
      [] field = "Timestamp" -> "Length"
      [] field = "Length" -> IF packet.Length # U32(0) THEN "Payload" ELSE "return"
      [] field = "Payload" -> "return"

\* One Read inside DecodePacket: n of the available bytes go into the buffer of
\* the field being read; a full buffer is stored and the next field begun, and
\* after the last field the packet is returned
DecodeRead(n) ==
    /\ ~dErr
    /\ n <= Len(cAvail)
    /\ n <= Len(dBuf) - dGot
    /\ LET buf == [i \in 1..Len(dBuf) |->
                      IF i > dGot /\ i <= dGot + n THEN cAvail[i - dGot] ELSE dBuf[i]]
           got == dGot + n
           packet == StoreField(dPacket, dField, buf)
           next == NextField(packet, dField)
       IN  /\ cAvail' = SubSeqFrom(cAvail, n + 1)
           /\ IF ~ReadFullDone(got, Len(dBuf))
              THEN /\ dBuf' = buf
                   /\ dGot' = got
                   /\ dConsumed' = dConsumed + n
                   /\ UNCHANGED <<dField, dPacket, cOut>>
              ELSE IF next = "return"
              THEN /\ cOut' = Append(cOut, packet)
                   /\ dField' = "Type"
                   /\ dBuf' = Zeros(TypeSize)
                   /\ dGot' = 0
                   /\ dPacket' = NilPacket
                   /\ dConsumed' = 0
              ELSE /\ dField' = next
                   /\ dBuf' = Zeros(FieldSize(next, packet))
                   /\ dGot' = 0
                   /\ dPacket' = packet
                   /\ dConsumed' = dConsumed + n
                   /\ UNCHANGED cOut
    /\ UNCHANGED <<cPacket, cPackets, cConfig, cWritten, cPipe, cDelivered, cEOF,
                   dErr, rtPacket, rtConfig,
                   sysVars, storeVars, wireVars, stopVars, capVars>>

\* The Read inside DecodePacket finds the stream ended: (nil, err)
DecodeEOF ==
    /\ ~dErr
    /\ cEOF
    /\ cAvail = <<>>
    /\ dErr' = TRUE
    /\ dPacket' = NilPacket
    /\ UNCHANGED <<cPacket, cPackets, cConfig, cWritten, cPipe, cDelivered, cAvail,
                   cEOF, dField, dBuf, dGot, dConsumed, cOut, rtPacket, rtConfig,
                   sysVars, storeVars, wireVars, stopVars, capVars>>

\* What SimpleClient.receivePackets does with an error of DecodePacket: a
\* timeout continues the loop, any other error stops the client and returns
AfterReadErrorFatal(err, stopped) == [stopped |-> TRUE, returned |-> TRUE]

AfterReadError(err, stopped) ==
    IF err = "timeout" THEN [stopped |-> stopped, returned |-> FALSE]
    ELSE [stopped |-> TRUE, returned |-> TRUE]

\* The read deadline expires inside DecodePacket: the call returns (nil, err)
\* with a timeout error, what it had read of the packet is dropped with its
\* locals, and the loop calls DecodePacket again on the same connection
DecodeTimeout ==
    /\ ~dErr
    /\ ~cliStopped
    /\ cPackets # <<>>
    /\ LET after == AfterReadError("timeout", cliStopped)
       IN  /\ dErr' = after.returned
           /\ cliStopped' = after.stopped
    /\ dField' = "Type"
    /\ dBuf' = Zeros(TypeSize)
    /\ dGot' = 0
    /\ dPacket' = NilPacket
    /\ dConsumed' = 0
    /\ UNCHANGED <<cPacket, cPackets, cConfig, cWritten, cPipe, cDelivered, cAvail,
                   cEOF, cOut, rtPacket, rtConfig,
                   sysVars, storeVars, wireVars, stopPc, acceptPc, dispPc, capVars>>

\* The Read inside DecodePacket finds the stream ended: the error is no
\* timeout, the loop calls c.Stop() and returns
ReceiveError ==
    /\ ~dErr
    /\ ~cliStopped
    /\ cEOF
    /\ cAvail = <<>>
    /\ LET after == AfterReadError("EOF", cliStopped)
       IN  /\ dErr' = after.returned
           /\ cliStopped' = after.stopped
    /\ dPacket' = NilPacket
    /\ UNCHANGED <<cPacket, cPackets, cConfig, cWritten, cPipe, cDelivered, cAvail,
                   cEOF, dField, dBuf, dGot, dConsumed, cOut, rtPacket, rtConfig,
                   sysVars, storeVars, wireVars, stopPc, acceptPc, dispPc, capVars>>

\* The receive loop of SimpleClient on a stream of packets
DeadlineNext ==
    \/ WritePacket
    \/ \E n \in 1..MaxChunk : Deliver(n)
    \/ Cut
    \/ \E n \in 1..MaxChunk : DecodeRead(n)
    \/ DecodeTimeout
    \/ ReceiveError

SpecDeadline == CodecInit /\ [][DeadlineNext]_vars

\* Byte strings handed to DecodeMonitorConfig: a count, among them counts
\* whose 4 + 24*count passes 2^32, followed by up to MaxData bytes; encodings
\* of configurations, whole and cut short; and strings shorter than a count
CountSamples ==
    { U32(0), U32(1), U32(2), U32(3), <<1, 0>>,
      <<2730, 43690>>,      \* 0x0AAAAAAA: 4 + 24*count = 2^32 - 12
      <<2730, 43691>>,      \* 0x0AAAAAAB: 4 + 24*count = 2^32 + 12
      <<65535, 65535>> }

DataInputs ==
    {PutUint32(count) \o [i \in 1..n |-> i % ByteMod] :
         count \in CountSamples, n \in 0..MaxData}
    \cup {SubSeq(EncodeMonitorConfig(config), 1,
                  Min(k, Len(EncodeMonitorConfig(config)))) :
              config \in ConfigInputs, k \in {0, 3, 4, 27, 28, 51, 52}}

\* A payload arrives and is kept as the reader's bytes
DecodeInit ==
    /\ cAvail \in DataInputs
    /\ cPacket = NilPacket /\ cPackets = <<>> /\ cConfig = NilConfig
    /\ cWritten = 0 /\ cPipe = <<>> /\ cDelivered = 0
    /\ cEOF = FALSE /\ dField = "Type" /\ dBuf = <<>> /\ dGot = 0
    /\ dPacket = NilPacket /\ dConsumed = 0 /\ cOut = <<>> /\ dErr = FALSE
    /\ rtPacket = NoResult /\ rtConfig = NoResult
    /\ SysIdle
    /\ StoreIdle
    /\ WireIdle
    /\ StopIdle /\ CapIdle

\* DecodeMonitorConfig(data)
DecodeData ==
    /\ rtConfig = NoResult
    /\ rtConfig' = DecodeMonitorConfig(cAvail)
    /\ UNCHANGED <<cPacket, cPackets, cConfig, cWritten, cPipe, cDelivered, cAvail,
                   cEOF, dField, dBuf, dGot, dPacket, dConsumed, cOut, dErr,
                   rtPacket,
                   sysVars, storeVars, wireVars, stopVars, capVars>>

SpecDecode == DecodeInit /\ [][DecodeData]_vars

CodecNext ==
    \/ RoundTripPacket
    \/ RoundTripConfig
    \/ WritePacket
    \/ \E n \in 1..MaxChunk : Deliver(n)
    \/ Cut
    \/ \E n \in 1..MaxChunk : DecodeRead(n)
    \/ DecodeEOF

SpecCodec == CodecInit /\ [][CodecNext]_vars

\* ---- connections ----
\* What conn.Write of one packet by the server on connection c can do: fail on
\* a connection either side closed; be queued while there is room; otherwise
\* block (no outcome)
WriteOutcomes(c) ==
    IF connClosed[c] THEN {"err"}
    ELSE IF peerClosed[c] THEN {"err"}
    ELSE IF Len(toClient[c]) < MaxQueue THEN {"ok"}
    ELSE {}

\* The server's write of packet on connection c with outcome r
ServerWrite(c, packet, r) ==
    /\ toClient' = IF r = "ok" THEN [toClient EXCEPT ![c] = Append(@, packet)]
                   ELSE toClient
    /\ firstToClient' = IF r # "err" /\ firstToClient[c] = NilPacket
                        THEN [firstToClient EXCEPT ![c] = packet]
                        ELSE firstToClient

\* ---- server: Start, handleClient, handlePacket, mapMonitors ----
\* Start accepts the connection and starts handleClient, which puts the new
\* session into s.clients under the lock
Register(c) ==
    /\ dialled[c]
    /\ hpc[c] = "idle"
    /\ clientsMutex = 0
    /\ clients' = MapPut(clients, c, NewSession)
    /\ hpc' = [hpc EXCEPT ![c] = "handshake"]
    /\ UNCHANGED <<monitors, clientsMutex, hLocal, netVars, wrkVars, cliVars,
                   envVars, histVars, codecVars, storeVars, wireVars, stopVars, capVars>>

\* sendHandshake; on an error handleClient returns and its defer runs
SendHandshake(c) ==
    /\ hpc[c] = "handshake"
    /\ \E r \in WriteOutcomes(c) :
          /\ ServerWrite(c, Pkt(PacketTypeHandshake, EncodeMonitorConfig(monitors)), r)
          /\ hpc' = [hpc EXCEPT ![c] = IF r = "err" THEN "close" ELSE "loop"]
    /\ UNCHANGED <<monitors, clients, clientsMutex, hLocal, dialled, toServer,
                   peerClosed, connClosed, wrkVars, cliVars, envVars, firstRead,
                   cliFirst, cliLast, everMapped, codecVars, storeVars, wireVars, stopVars, capVars>>

\* for client.active { ... }: the loop condition, read without the lock
LoopCheck(c) ==
    /\ hpc[c] = "loop"
    /\ hpc' = [hpc EXCEPT ![c] = IF clients[c].active THEN "read" ELSE "close"]
    /\ UNCHANGED <<monitors, clients, clientsMutex, hLocal, netVars, wrkVars,
                   cliVars, envVars, histVars, codecVars, storeVars, wireVars, stopVars, capVars>>

\* The Pong carries no payload
PongEmpty(packet) == Pkt(PacketTypePong, <<>>)

\* handlePacket, PacketTypePing: NewPacket(PacketTypePong, packet.Payload)
PongFor(packet) == Pkt(PacketTypePong, packet.Payload)

\* The level is set on every session of the registry
QualityControlAll(sessions, c, payload) ==
    [k \in DOMAIN sessions |-> [sessions[k] EXCEPT !.qualityLevel = payload[1]]]

\* handlePacket, PacketTypeQualityControl with len(packet.Payload) >= 1:
\* client.qualityLevel = int(packet.Payload[0])
QualityControl(sessions, c, payload) ==
    [sessions EXCEPT ![c].qualityLevel = payload[1]]

\* DecodePacket returns a packet and handlePacket acts on it
ReadPacket(c) ==
    /\ hpc[c] = "read"
    /\ toServer[c] # <<>>
    /\ ~connClosed[c]
    /\ LET packet == Head(toServer[c])
           decoded == DecodeMonitorConfig(packet.Payload)
       IN  /\ toServer' = [toServer EXCEPT ![c] = Tail(@)]
           /\ firstRead' = IF firstRead[c] = NilPacket
                           THEN [firstRead EXCEPT ![c] = packet] ELSE firstRead
           /\ IF packet.Type = PacketTypeMonitorConfig /\ decoded.err = "nil"
              THEN \* mapMonitors: client.monitorMap = make(map[uint32]uint32),
                   \* no lock held, and the loop condition for i = 0
                   LET more == MapLoopCond(monitors, decoded.config, 0)
                   IN  /\ clients' = [clients EXCEPT ![c].monitorMap = EmptyMap]
                       /\ hLocal' = [hLocal EXCEPT ![c] =
                                        [clientMonitors |-> decoded.config,
                                         i |-> 0, mapped |-> ~more,
                                         err |-> FALSE]]
                       /\ hpc' = [hpc EXCEPT ![c] =
                                     IF more THEN "mapLoop" ELSE "loop"]
                       /\ UNCHANGED <<toClient, firstToClient>>
              ELSE IF packet.Type = PacketTypeQualityControl
                      /\ Len(packet.Payload) >= 1
              THEN /\ clients' = QualityControl(clients, c, packet.Payload)
                   /\ hpc' = [hpc EXCEPT ![c] = "loop"]
                   /\ UNCHANGED <<hLocal, toClient, firstToClient>>
              ELSE IF packet.Type = PacketTypePing
              THEN /\ \E r \in WriteOutcomes(c) :
                          ServerWrite(c, PongFor(packet), r)
                   /\ hpc' = [hpc EXCEPT ![c] = "loop"]
                   /\ UNCHANGED <<clients, hLocal>>
              ELSE /\ hpc' = [hpc EXCEPT ![c] = "loop"]
                   /\ UNCHANGED <<clients, hLocal, toClient, firstToClient>>
    /\ UNCHANGED <<monitors, clientsMutex, dialled, peerClosed, connClosed,
                   wrkVars, cliVars, envVars, cliFirst, cliLast, everMapped, codecVars, storeVars, wireVars, stopVars, capVars>>

\* DecodePacket returns an error: the peer closed and nothing is left to
\* read, or the connection was closed on this side
ReadError(c) ==
    /\ hpc[c] = "read"
    /\ connClosed[c] \/ (peerClosed[c] /\ toServer[c] = <<>>)
    /\ hpc' = [hpc EXCEPT ![c] = "close"]
    /\ hLocal' = [hLocal EXCEPT ![c].err = TRUE]
    /\ UNCHANGED <<monitors, clients, clientsMutex, netVars, wrkVars,
                   cliVars, envVars, histVars, codecVars, storeVars, wireVars, stopVars, capVars>>

\* mapMonitors: one turn of the loop, with the test that follows it
MapStep(c) ==
    /\ hpc[c] = "mapLoop"
    /\ LET i == hLocal[c].i
           clientMonitors == hLocal[c].clientMonitors
           more == MapLoopCond(monitors, clientMonitors, i + 1)
       IN  /\ clients' = [clients EXCEPT ![c].monitorMap =
                             MapPut(@, monitors.Monitors[i + 1].ID,
                                    clientMonitors.Monitors[i + 1].ID)]
           /\ everMapped' = [everMapped EXCEPT
                                ![c] = @ \cup {monitors.Monitors[i + 1].ID}]
           /\ hLocal' = [hLocal EXCEPT ![c].i = i + 1, ![c].mapped = ~more]
           /\ hpc' = [hpc EXCEPT ![c] = IF more THEN "mapLoop" ELSE "loop"]
    /\ UNCHANGED <<monitors, clientsMutex, netVars, wrkVars, cliVars, envVars,
                   firstToClient, firstRead, cliFirst, cliLast, codecVars, storeVars, wireVars, stopVars, capVars>>

\* handleClient's defer, first half: conn.Close()
CloseConn(c) ==
    /\ hpc[c] = "close"
    /\ connClosed' = [connClosed EXCEPT ![c] = TRUE]
    /\ hpc' = [hpc EXCEPT ![c] = "unregister"]
    /\ UNCHANGED <<monitors, clients, clientsMutex, hLocal, dialled, toClient,
                   toServer, peerClosed, wrkVars, cliVars, envVars, histVars,
                   codecVars, storeVars, wireVars, stopVars, capVars>>

\* handleClient's defer, second half: delete(s.clients, clientID) under the lock
Unregister(c) ==
    /\ hpc[c] = "unregister"
    /\ clientsMutex = 0
    /\ clients' = MapDelete(clients, c)
    /\ hpc' = [hpc EXCEPT ![c] = "done"]
    /\ UNCHANGED <<monitors, clientsMutex, hLocal, netVars, wrkVars, cliVars,
                   envVars, histVars, codecVars, storeVars, wireVars, stopVars, capVars>>

\* ---- server: captureMonitor, one goroutine per monitor ----
\* The dispatch loop passes over a session: if !client.active { continue }
SkippedNever(session) == FALSE

Skipped(session) == ~session.active

\* The lookup of the dispatch loop: client.monitorMap[monitor.ID] found
MappedAny(map, id) == TRUE

Mapped(map, id) == id \in DOMAIN map

\* One turn of the capture loop up to the dispatch: clientCount is read under
\* the lock; with no client the worker sleeps and looks again; otherwise the
\* monitor is captured and encoded, and a failure starts the loop over
Gate(m) ==
    /\ wpc[m] = "gate"
    /\ clientsMutex = 0
    /\ \E ok \in BOOLEAN :
          wpc' = [wpc EXCEPT ![m] = IF Cardinality(DOMAIN clients) # 0 /\ ok
                                    THEN "lock" ELSE "gate"]
    /\ UNCHANGED <<srvVars, netVars, wTodo, wCur, wFailed, cliVars, envVars,
                   histVars, codecVars, storeVars, wireVars, stopVars, capVars>>

\* s.clientsMutex.Lock(); for _, client := range s.clients; over an empty
\* registry the loop ends at once and the lock is released
Lock(m) ==
    /\ wpc[m] = "lock"
    /\ clientsMutex = 0
    /\ IF DOMAIN clients = {}
       THEN /\ wpc' = [wpc EXCEPT ![m] = "gate"]
            /\ UNCHANGED <<clientsMutex, wTodo>>
       ELSE /\ clientsMutex' = m
            /\ wTodo' = [wTodo EXCEPT ![m] = DOMAIN clients]
            /\ wpc' = [wpc EXCEPT ![m] = "range"]
    /\ UNCHANGED <<monitors, clients, hpc, hLocal, netVars, wCur, wFailed,
                   cliVars, envVars, histVars, codecVars, storeVars, wireVars, stopVars, capVars>>

\* One turn of the range loop, up to the write: inactive sessions and
\* sessions whose map lacks monitor.ID are passed over; after the last session
\* s.clientsMutex.Unlock() and the sleep follow
RangeClient(m, c) ==
    /\ wpc[m] = "range"
    /\ c \in wTodo[m]
    /\ wTodo' = [wTodo EXCEPT ![m] = @ \ {c}]
    /\ IF ~Skipped(clients[c]) /\ Mapped(clients[c].monitorMap, monitors.Monitors[m].ID)
       THEN /\ wCur' = [wCur EXCEPT ![m] = c]
            /\ wpc' = [wpc EXCEPT ![m] = "write"]
            /\ UNCHANGED <<clientsMutex, wFailed>>
       ELSE /\ wpc' = [wpc EXCEPT ![m] = IF wTodo[m] = {c} THEN "gate" ELSE "range"]
            /\ clientsMutex' = IF wTodo[m] = {c} THEN 0 ELSE clientsMutex
            /\ wFailed' = IF wTodo[m] = {c} THEN [wFailed EXCEPT ![m] = {}]
                          ELSE wFailed
            /\ UNCHANGED wCur
    /\ UNCHANGED <<monitors, clients, hpc, hLocal, netVars, cliVars, envVars,
                   histVars, codecVars, storeVars, wireVars, stopVars, capVars>>

\* The range loop ends at the first write that fails
AfterWriteBreak(todo, r) == IF r = "err" \/ todo = {} THEN "gate" ELSE "range"

\* Where the range loop stands after a write: it goes on to the next session
\* whatever the write returned, and ends after the last one
AfterWrite(todo, r) == IF todo = {} THEN "gate" ELSE "range"

\* EncodePacket(client.conn, packet); an error marks the session inactive;
\* after the last session s.clientsMutex.Unlock() and the sleep follow
WriteFrame(m) ==
    /\ wpc[m] = "write"
    /\ \E r \in WriteOutcomes(wCur[m]) :
          /\ ServerWrite(wCur[m],
                         Pkt(PacketTypeVideoFrame, FrameData(monitors.Monitors[m])), r)
          /\ clients' = IF r = "err"
                        THEN [clients EXCEPT ![wCur[m]].active = FALSE]
                        ELSE clients
          /\ wpc' = [wpc EXCEPT ![m] = AfterWrite(wTodo[m], r)]
          /\ clientsMutex' = IF AfterWrite(wTodo[m], r) = "gate" THEN 0
                              ELSE clientsMutex
          /\ wFailed' = [wFailed EXCEPT ![m] =
                            IF AfterWrite(wTodo[m], r) = "gate" THEN {}
                            ELSE IF r = "err" THEN @ \cup {wCur[m]} ELSE @]
    /\ wCur' = [wCur EXCEPT ![m] = "none"]
    /\ UNCHANGED <<monitors, hpc, hLocal, dialled, toServer, peerClosed,
                   connClosed, wTodo, cliVars, envVars, firstRead, cliFirst, cliLast,
                   everMapped, codecVars, storeVars, wireVars, stopVars, capVars>>

\* ---- client: Start, handleHandshake, the receive goroutine ----
\* The client's process ends (log.Fatalf in runClient): its socket closes
ClientExit == [peerClosed EXCEPT !["client"] = TRUE]

\* A packet of a known type with a payload that decodes
AnyTypeAccepted(packet) == packet.Type \in PacketTypes

\* handleHandshake: packet.Type != protocol.PacketTypeHandshake is an error
IsHandshake(packet) == packet.Type = PacketTypeHandshake

\* handleHandshake, first half: the first packet is read and judged
CliRecvHandshake ==
    /\ cliPhase = "handshake"
    /\ toClient["client"] # <<>>
    /\ LET packet == Head(toClient["client"])
           decoded == DecodeMonitorConfig(packet.Payload)
       IN  /\ toClient' = [toClient EXCEPT !["client"] = Tail(@)]
           /\ cliFirst' = packet
           /\ IF IsHandshake(packet) /\ decoded.err = "nil"
              THEN /\ serverMonitors' = decoded.config
                   /\ cliPhase' = "reply"
                   /\ UNCHANGED peerClosed
              ELSE /\ cliPhase' = "failed"
                   /\ peerClosed' = ClientExit
                   /\ UNCHANGED serverMonitors
    /\ UNCHANGED <<srvVars, dialled, toServer, connClosed, wrkVars, localMonitors,
                   monitorMap, frameBuffers, envVars, firstToClient, firstRead,
                   everMapped, cliLast, codecVars, storeVars, wireVars, stopVars, capVars>>

\* handleHandshake: DecodePacket fails because the other side closed
CliHandshakeError ==
    /\ cliPhase = "handshake"
    /\ toClient["client"] = <<>>
    /\ connClosed["client"]
    /\ cliPhase' = "failed"
    /\ peerClosed' = ClientExit
    /\ UNCHANGED <<srvVars, dialled, toClient, toServer, connClosed, wrkVars,
                   serverMonitors, localMonitors, monitorMap, frameBuffers,
                   envVars, histVars, codecVars, storeVars, wireVars, stopVars, capVars>>

\* handleHandshake, second half: the client's MonitorConfig is written and
\* createMonitorMapping runs; a write error fails the handshake
CliSendConfig ==
    /\ cliPhase = "reply"
    /\ IF connClosed["client"]
       THEN /\ cliPhase' = "failed"
            /\ peerClosed' = ClientExit
            /\ UNCHANGED <<toServer, monitorMap, frameBuffers>>
       ELSE /\ Len(toServer["client"]) < MaxQueue
            /\ toServer' = [toServer EXCEPT !["client"] =
                               Append(@, Pkt(PacketTypeMonitorConfig,
                                             EncodeMonitorConfig(localMonitors)))]
            /\ LET m == createMonitorMapping(serverMonitors, localMonitors,
                                             frameBuffers)
               IN  /\ monitorMap' = m.monitorMap
                   /\ frameBuffers' = m.frameBuffers
            /\ cliPhase' = "running"
            /\ UNCHANGED peerClosed
    /\ UNCHANGED <<srvVars, dialled, toClient, connClosed, wrkVars, serverMonitors,
                   localMonitors, envVars, histVars, codecVars, storeVars, wireVars, stopVars, capVars>>

\* The receive goroutine: DecodePacket returns a packet, handlePacket acts
CliRecv ==
    /\ cliPhase = "running"
    /\ toClient["client"] # <<>>
    /\ LET after == handlePacket(Head(toClient["client"]), serverMonitors,
                                 localMonitors, monitorMap, frameBuffers)
       IN  /\ serverMonitors' = after.serverMonitors
           /\ monitorMap' = after.monitorMap
           /\ frameBuffers' = after.frameBuffers
    /\ toClient' = [toClient EXCEPT !["client"] = Tail(@)]
    /\ cliLast' = Head(toClient["client"])
    /\ UNCHANGED <<srvVars, dialled, toServer, peerClosed, connClosed, wrkVars,
                   cliPhase, localMonitors, envVars, firstToClient, firstRead,
                   cliFirst, everMapped, codecVars, storeVars, wireVars, stopVars, capVars>>

\* The receive goroutine: DecodePacket fails and the loop breaks
CliRecvError ==
    /\ cliPhase = "running"
    /\ toClient["client"] = <<>>
    /\ connClosed["client"]
    /\ cliPhase' = "ended"
    /\ UNCHANGED <<srvVars, netVars, wrkVars, serverMonitors, localMonitors,
                   monitorMap, frameBuffers, envVars, histVars, codecVars, storeVars, wireVars, stopVars, capVars>>

\* ---- the hand-driven peer and the foreign endpoint ----
\* The client has dialled an endpoint that is not this server
Foreign == \A c \in Conns : ~dialled[c]

RawSend(packet) ==
    /\ dialled["raw"]
    /\ ~peerClosed["raw"]
    /\ rawSent < MaxRawSends
    /\ Len(toServer["raw"]) < MaxQueue
    /\ toServer' = [toServer EXCEPT !["raw"] = Append(@, packet)]
    /\ rawSent' = rawSent + 1
    /\ UNCHANGED <<srvVars, dialled, toClient, peerClosed, connClosed, wrkVars,
                   cliVars, foreignSent, histVars, codecVars, storeVars, wireVars, stopVars, capVars>>

RawRecv ==
    /\ toClient["raw"] # <<>>
    /\ ~peerClosed["raw"]
    /\ toClient' = [toClient EXCEPT !["raw"] = Tail(@)]
    /\ UNCHANGED <<srvVars, dialled, toServer, peerClosed, connClosed, wrkVars,
                   cliVars, envVars, histVars, codecVars, storeVars, wireVars, stopVars, capVars>>

RawClose ==
    /\ dialled["raw"]
    /\ ~peerClosed["raw"]
    /\ peerClosed' = [peerClosed EXCEPT !["raw"] = TRUE]
    /\ UNCHANGED <<srvVars, dialled, toClient, toServer, connClosed, wrkVars,
                   cliVars, envVars, histVars, codecVars, storeVars, wireVars, stopVars, capVars>>

ForeignSend(packet) ==
    /\ Foreign
    /\ ~connClosed["client"]
    /\ foreignSent < MaxForeignSends
    /\ Len(toClient["client"]) < MaxQueue
    /\ toClient' = [toClient EXCEPT !["client"] = Append(@, packet)]
    /\ foreignSent' = foreignSent + 1
    /\ UNCHANGED <<srvVars, dialled, toServer, peerClosed, connClosed, wrkVars,
                   cliVars, rawSent, histVars, codecVars, storeVars, wireVars, stopVars, capVars>>

\* The foreign endpoint reads what the client wrote
ForeignRecv ==
    /\ Foreign
    /\ toServer["client"] # <<>>
    /\ toServer' = [toServer EXCEPT !["client"] = Tail(@)]
    /\ UNCHANGED <<srvVars, dialled, toClient, peerClosed, connClosed, wrkVars,
                   cliVars, envVars, histVars, codecVars, storeVars, wireVars, stopVars, capVars>>

\* The foreign endpoint closes the connection
ForeignClose ==
    /\ Foreign
    /\ ~connClosed["client"]
    /\ connClosed' = [connClosed EXCEPT !["client"] = TRUE]
    /\ UNCHANGED <<srvVars, dialled, toClient, toServer, peerClosed, wrkVars,
                   cliVars, envVars, histVars, codecVars, storeVars, wireVars, stopVars, capVars>>

Init == SysInit /\ CodecIdle /\ StoreIdle /\ WireIdle /\ StopIdle /\ CapIdle

Next ==
    \/ \E c \in Conns :
          \/ Register(c) \/ SendHandshake(c) \/ LoopCheck(c)
          \/ ReadPacket(c) \/ ReadError(c) \/ MapStep(c)
          \/ CloseConn(c) \/ Unregister(c)
    \/ \E m \in Workers :
          \/ Gate(m) \/ Lock(m) \/ WriteFrame(m)
          \/ \E c \in Conns : RangeClient(m, c)
    \/ CliRecvHandshake \/ CliHandshakeError \/ CliSendConfig
    \/ CliRecv \/ CliRecvError
    \/ \E packet \in RawPackets : RawSend(packet)
    \/ RawRecv \/ RawClose
    \/ \E packet \in ForeignPackets : ForeignSend(packet)
    \/ ForeignRecv \/ ForeignClose

Spec == Init /\ [][Next]_vars

\* ---- server, earlier revision of handleClient ----
\* The handshake is written first, before the session exists
SendHandshakeEarlier(c) ==
    /\ dialled[c]
    /\ hpc[c] = "idle"
    /\ \E r \in WriteOutcomes(c) :
          /\ ServerWrite(c, Pkt(PacketTypeHandshake, EncodeMonitorConfig(monitors)), r)
          /\ hpc' = [hpc EXCEPT ![c] = IF r = "err" THEN "done" ELSE "config"]
          /\ connClosed' = IF r = "err" THEN [connClosed EXCEPT ![c] = TRUE]
                           ELSE connClosed
    /\ UNCHANGED <<monitors, clients, clientsMutex, hLocal, dialled, toServer,
                   peerClosed, wrkVars, cliVars, envVars, firstRead, cliFirst, cliLast,
                   everMapped, codecVars, storeVars, wireVars, stopVars, capVars>>

\* One packet is read: anything but a MonitorConfig that decodes closes the
\* connection; otherwise the session and its monitor map are built
ReadConfigEarlier(c) ==
    /\ hpc[c] = "config"
    /\ toServer[c] # <<>>
    /\ LET packet == Head(toServer[c])
           decoded == DecodeMonitorConfig(packet.Payload)
       IN  /\ toServer' = [toServer EXCEPT ![c] = Tail(@)]
           /\ firstRead' = [firstRead EXCEPT ![c] = packet]
           /\ IF packet.Type = PacketTypeMonitorConfig /\ decoded.err = "nil"
              THEN /\ hLocal' = [hLocal EXCEPT ![c] =
                                    [clientMonitors |-> decoded.config, i |-> 0,
                                     mapped |-> TRUE, err |-> FALSE,
                                     client |->
                                         [active |-> TRUE,
                                          monitors |-> decoded.config,
                                          monitorMap |->
                                              MonitorMapFrom(monitors, decoded.config,
                                                             0, EmptyMap)]]]
                   /\ hpc' = [hpc EXCEPT ![c] = "register"]
                   /\ UNCHANGED connClosed
              ELSE /\ connClosed' = [connClosed EXCEPT ![c] = TRUE]
                   /\ hpc' = [hpc EXCEPT ![c] = "done"]
                   /\ UNCHANGED hLocal
    /\ UNCHANGED <<monitors, clients, clientsMutex, dialled, toClient, peerClosed,
                   wrkVars, cliVars, envVars, firstToClient, cliFirst, cliLast, everMapped,
                   codecVars, storeVars, wireVars, stopVars, capVars>>

\* DecodePacket fails: the peer closed with nothing left to read
ReadErrorEarlier(c) ==
    /\ hpc[c] = "config"
    /\ toServer[c] = <<>>
    /\ peerClosed[c]
    /\ connClosed' = [connClosed EXCEPT ![c] = TRUE]
    /\ hpc' = [hpc EXCEPT ![c] = "done"]
    /\ UNCHANGED <<monitors, clients, clientsMutex, hLocal, dialled, toClient,
                   toServer, peerClosed, wrkVars, cliVars, envVars, histVars,
                   codecVars, storeVars, wireVars, stopVars, capVars>>

\* The session is added to s.clients under the lock; handleClient returns
RegisterEarlier(c) ==
    /\ hpc[c] = "register"
    /\ clientsMutex = 0
    /\ clients' = MapPut(clients, c, hLocal[c].client)
    /\ everMapped' = [everMapped EXCEPT ![c] = DOMAIN hLocal[c].client.monitorMap]
    /\ hpc' = [hpc EXCEPT ![c] = "done"]
    /\ UNCHANGED <<monitors, clientsMutex, hLocal, netVars, wrkVars, cliVars,
                   envVars, firstToClient, firstRead, cliFirst, cliLast, codecVars, storeVars, wireVars, stopVars, capVars>>

NextEarlier ==
    \/ \E c \in Conns :
          \/ SendHandshakeEarlier(c) \/ ReadConfigEarlier(c)
          \/ ReadErrorEarlier(c) \/ RegisterEarlier(c)
    \/ \E m \in Workers :
          \/ Gate(m) \/ Lock(m) \/ WriteFrame(m)
          \/ \E c \in Conns : RangeClient(m, c)
    \/ CliRecvHandshake \/ CliHandshakeError \/ CliSendConfig
    \/ CliRecv \/ CliRecvError
    \/ \E packet \in RawPackets : RawSend(packet)
    \/ RawRecv \/ RawClose
    \/ \E packet \in ForeignPackets : ForeignSend(packet)
    \/ ForeignRecv \/ ForeignClose

\* Every goroutine that can take a step is scheduled: the handlers of the
\* server and the client's handshake and receive loop
FairEarlier ==
    /\ \A c \in Conns :
          /\ WF_vars(SendHandshakeEarlier(c))
          /\ WF_vars(ReadConfigEarlier(c))
    /\ WF_vars(CliRecvHandshake)
    /\ WF_vars(CliSendConfig)

SpecEarlier == Init /\ [][NextEarlier]_vars /\ FairEarlier

\* ---- client, earlier revision, against an endpoint that is not this server ----
\* Start's packet loop: DecodePacket returns a packet, handlePacket acts
CliRecvEarlier ==
    /\ cliPhase = "running"
    /\ toClient["client"] # <<>>
    /\ LET after == handlePacketEarlier(Head(toClient["client"]), serverMonitors,
                                        localMonitors, monitorMap, frameBuffers)
       IN  /\ serverMonitors' = after.serverMonitors
           /\ monitorMap' = after.monitorMap
           /\ frameBuffers' = after.frameBuffers
    /\ toClient' = [toClient EXCEPT !["client"] = Tail(@)]
    /\ cliLast' = Head(toClient["client"])
    /\ UNCHANGED <<srvVars, dialled, toServer, peerClosed, connClosed, wrkVars,
                   cliPhase, localMonitors, envVars, firstToClient, firstRead,
                   cliFirst, everMapped, codecVars, storeVars, wireVars, stopVars, capVars>>

\* Start's packet loop: DecodePacket fails, Start returns the error and
\* runClient ends the process
CliRecvErrorEarlier ==
    /\ cliPhase = "running"
    /\ toClient["client"] = <<>>
    /\ connClosed["client"]
    /\ cliPhase' = "ended"
    /\ peerClosed' = ClientExit
    /\ UNCHANGED <<srvVars, dialled, toClient, toServer, connClosed, wrkVars,
                   serverMonitors, localMonitors, monitorMap, frameBuffers,
                   envVars, histVars, codecVars, storeVars, wireVars, stopVars, capVars>>

NextClientEarlier ==
    \/ CliRecvHandshake \/ CliHandshakeError \/ CliSendConfig
    \/ CliRecvEarlier \/ CliRecvErrorEarlier
    \/ \E packet \in ForeignPackets : ForeignSend(packet)
    \/ ForeignRecv \/ ForeignClose

\* The client has dialled an endpoint that is not this server
InitClientEarlier ==
    /\ SysInit /\ CodecIdle /\ StoreIdle /\ WireIdle /\ StopIdle /\ CapIdle
    /\ \A c \in Conns : ~dialled[c]

SpecClientEarlier == InitClientEarlier /\ [][NextClientEarlier]_vars

\* ---- two sessions at once: the client and the hand-driven peer ----
\* Both peers have dialled the server
InitSessions ==
    /\ dialled = [c \in Conns |-> TRUE]
    /\ monitors = DetectMonitors(1)
    /\ localMonitors = DetectMonitors(1)
    /\ cliPhase = "handshake"
    /\ clients = [c \in {} |-> NewSession]
    /\ clientsMutex = 0
    /\ hpc = [c \in Conns |-> "idle"]
    /\ hLocal = [c \in Conns |-> NoLocals]
    /\ toClient = [c \in Conns |-> <<>>]
    /\ toServer = [c \in Conns |-> <<>>]
    /\ peerClosed = [c \in Conns |-> FALSE]
    /\ connClosed = [c \in Conns |-> FALSE]
    /\ wpc = [m \in DOMAIN monitors.Monitors |-> "gate"]
    /\ wTodo = [m \in DOMAIN monitors.Monitors |-> {}]
    /\ wCur = [m \in DOMAIN monitors.Monitors |-> "none"]
    /\ wFailed = [m \in DOMAIN monitors.Monitors |-> {}]
    /\ serverMonitors = NilConfig
    /\ monitorMap = EmptyMap
    /\ frameBuffers = EmptyMap
    /\ rawSent = 0
    /\ foreignSent = 0
    /\ firstToClient = [c \in Conns |-> NilPacket]
    /\ firstRead = [c \in Conns |-> NilPacket]
    /\ cliFirst = NilPacket
    /\ everMapped = [c \in Conns |-> {}]
    /\ cliLast = NilPacket
    /\ CodecIdle
    /\ StoreIdle
    /\ WireIdle
    /\ StopIdle /\ CapIdle

\* What the hand-driven peer sends here: its MonitorConfig with one monitor,
\* and a Ping
SessionPackets ==
    { Pkt(PacketTypeMonitorConfig,
          EncodeMonitorConfig([MonitorCount |-> U32(1),
                               Monitors |-> <<RawMonitor(U32(7))>>])),
      Pkt(PacketTypePing, <<7>>) }

NextSessions ==
    \/ \E c \in Conns :
          \/ Register(c) \/ SendHandshake(c) \/ LoopCheck(c)
          \/ ReadPacket(c) \/ ReadError(c) \/ MapStep(c)
          \/ CloseConn(c) \/ Unregister(c)
    \/ \E m \in Workers :
          \/ Gate(m) \/ Lock(m) \/ WriteFrame(m)
          \/ \E c \in Conns : RangeClient(m, c)
    \/ CliRecvHandshake \/ CliSendConfig \/ CliRecv
    \/ \E packet \in SessionPackets : RawSend(packet)
    \/ RawRecv \/ RawClose

\* The server's goroutines are scheduled whenever they can take a step, and a
\* goroutine waiting for s.clientsMutex gets it in the end (sync.Mutex hands
\* the lock to a starving waiter); nothing is assumed of the peers
FairSessions ==
    /\ \A c \in Conns :
          /\ SF_vars(Register(c)) /\ WF_vars(SendHandshake(c))
          /\ WF_vars(LoopCheck(c)) /\ WF_vars(ReadPacket(c))
          /\ WF_vars(ReadError(c)) /\ WF_vars(MapStep(c))
          /\ WF_vars(CloseConn(c)) /\ SF_vars(Unregister(c))
    /\ SF_vars(\E m \in Workers : Gate(m))
    /\ SF_vars(\E m \in Workers : Lock(m))
    /\ WF_vars(\E m \in Workers, c \in Conns : RangeClient(m, c))
    /\ WF_vars(\E m \in Workers : WriteFrame(m))

SpecSessions == InitSessions /\ [][NextSessions]_vars /\ FairSessions

\* ---- two sessions, the hand-driven peer sending control packets ----
QualityPackets ==
    { Pkt(PacketTypeQualityControl, <<50>>),
      Pkt(PacketTypeQualityControl, <<200>>),
      Pkt(PacketTypeQualityControl, <<>>),
      Pkt(PacketTypePing, <<7>>),
      Pkt(PacketTypePing, <<>>),
      Pkt(PacketTypeMonitorConfig,
          EncodeMonitorConfig([MonitorCount |-> U32(1),
                               Monitors |-> <<RawMonitor(U32(7))>>])) }

NextQuality ==
    \/ \E c \in Conns :
          \/ Register(c) \/ SendHandshake(c) \/ LoopCheck(c)
          \/ ReadPacket(c) \/ ReadError(c) \/ MapStep(c)
          \/ CloseConn(c) \/ Unregister(c)
    \/ \E m \in Workers :
          \/ Gate(m) \/ Lock(m) \/ WriteFrame(m)
          \/ \E c \in Conns : RangeClient(m, c)
    \/ CliRecvHandshake \/ CliSendConfig \/ CliRecv
    \/ \E packet \in QualityPackets : RawSend(packet)
    \/ RawRecv \/ RawClose

SpecQuality == InitSessions /\ [][NextQuality]_vars

\* ---- shutdown: Server.Stop and Client.Stop ----
\* Either the hand-driven peer has dialled the server, or the client has
\* dialled an endpoint that is not this server
InitStop ==
    /\ \/ /\ dialled = [c \in Conns |-> c = "raw"]
          /\ cliPhase = "off"
       \/ /\ dialled = [c \in Conns |-> FALSE]
          /\ cliPhase = "handshake"
    /\ monitors = DetectMonitors(1)
    /\ localMonitors = DetectMonitors(1)
    /\ clients = [c \in {} |-> NewSession]
    /\ clientsMutex = 0
    /\ hpc = [c \in Conns |-> "idle"]
    /\ hLocal = [c \in Conns |-> NoLocals]
    /\ toClient = [c \in Conns |-> <<>>]
    /\ toServer = [c \in Conns |-> <<>>]
    /\ peerClosed = [c \in Conns |-> FALSE]
    /\ connClosed = [c \in Conns |-> FALSE]
    /\ wpc = [m \in DOMAIN monitors.Monitors |-> "gate"]
    /\ wTodo = [m \in DOMAIN monitors.Monitors |-> {}]
    /\ wCur = [m \in DOMAIN monitors.Monitors |-> "none"]
    /\ wFailed = [m \in DOMAIN monitors.Monitors |-> {}]
    /\ serverMonitors = NilConfig
    /\ monitorMap = EmptyMap
    /\ frameBuffers = EmptyMap
    /\ rawSent = 0
    /\ foreignSent = 0
    /\ firstToClient = [c \in Conns |-> NilPacket]
    /\ firstRead = [c \in Conns |-> NilPacket]
    /\ cliFirst = NilPacket
    /\ everMapped = [c \in Conns |-> {}]
    /\ cliLast = NilPacket
    /\ CodecIdle
    /\ StoreIdle
    /\ WireIdle
    /\ StopIdle /\ CapIdle

\* Start: listener.Accept() returns a connection and go s.handleClient(conn)
Accept(c) ==
    /\ acceptPc = "accept"
    /\ stopPc = "running"
    /\ dialled[c]
    /\ hpc[c] = "idle"
    /\ hpc' = [hpc EXCEPT ![c] = "accepted"]
    /\ UNCHANGED <<monitors, clients, clientsMutex, hLocal, netVars, wrkVars,
                   cliVars, envVars, histVars, codecVars, storeVars, wireVars,
                   stopVars, capVars>>

\* handleClient: the new session is put into s.clients under the lock
RegisterAccepted(c) ==
    /\ hpc[c] = "accepted"
    /\ clientsMutex = 0
    /\ clients' = MapPut(clients, c, NewSession)
    /\ hpc' = [hpc EXCEPT ![c] = "handshake"]
    /\ UNCHANGED <<monitors, clientsMutex, hLocal, netVars, wrkVars, cliVars,
                   envVars, histVars, codecVars, storeVars, wireVars, stopVars, capVars>>

\* Start: Accept fails on the closed listener, s.stopped is set: break
AcceptReturn ==
    /\ acceptPc = "accept"
    /\ stopPc # "running"
    /\ acceptPc' = "returned"
    /\ UNCHANGED <<sysVars, codecVars, storeVars, wireVars, stopPc, cliStopped,
                   dispPc, capVars>>

\* Stop: s.stopped = true; close(s.stopChan); s.listener.Close()
StopBegin ==
    /\ stopPc = "running"
    /\ stopPc' = "closing"
    /\ UNCHANGED <<sysVars, codecVars, storeVars, wireVars, acceptPc, cliStopped,
                   dispPc, capVars>>

\* Stop: under s.clientsMutex, client.conn.Close() for every session in
\* s.clients; Stop returns
StopCloseAll ==
    /\ stopPc = "closing"
    /\ clientsMutex = 0
    /\ connClosed' = [c \in Conns |-> connClosed[c] \/ c \in DOMAIN clients]
    /\ stopPc' = "returned"
    /\ UNCHANGED <<srvVars, dialled, toClient, toServer, peerClosed, wrkVars,
                   cliVars, envVars, histVars, codecVars, storeVars, wireVars,
                   acceptPc, cliStopped, dispPc, capVars>>

\* captureMonitor: for !s.stopped, then one turn of the loop up to the dispatch
GateRunning(m) == stopPc = "running" /\ Gate(m)

\* captureMonitor: for !s.stopped fails and the goroutine returns
WorkerReturn(m) ==
    /\ wpc[m] = "gate"
    /\ stopPc # "running"
    /\ wpc' = [wpc EXCEPT ![m] = "returned"]
    /\ UNCHANGED <<srvVars, netVars, wTodo, wCur, wFailed, cliVars, envVars,
                   histVars, codecVars, storeVars, wireVars, stopVars, capVars>>

\* Client.Stop, called from outside the loops: c.stopped = true;
\* close(c.stopChan); c.conn.Close()
ClientStop ==
    /\ cliPhase = "running"
    /\ ~cliStopped
    /\ cliStopped' = TRUE
    /\ peerClosed' = [peerClosed EXCEPT !["client"] = TRUE]
    /\ UNCHANGED <<srvVars, dialled, toClient, toServer, connClosed, wrkVars,
                   cliVars, envVars, histVars, codecVars, storeVars, wireVars,
                   stopPc, acceptPc, dispPc, capVars>>

\* The receive goroutine while the client's connection is open
CliRecvRunning == ~cliStopped /\ CliRecv

\* The receive goroutine: DecodePacket fails on the connection Stop closed
CliRecvStopped ==
    /\ cliPhase = "running"
    /\ cliStopped
    /\ cliPhase' = "ended"
    /\ UNCHANGED <<srvVars, netVars, wrkVars, serverMonitors, localMonitors,
                   monitorMap, frameBuffers, envVars, histVars, codecVars,
                   storeVars, wireVars, stopVars, capVars>>

\* updateDisplayLoop: for !c.stopped
DisplayHead ==
    /\ cliPhase \in {"running", "ended"}
    /\ dispPc \in {"off", "head"}
    /\ dispPc' = IF cliStopped THEN "returned" ELSE "body"
    /\ UNCHANGED <<sysVars, codecVars, storeVars, wireVars, stopPc, acceptPc,
                   cliStopped, capVars>>

\* updateDisplayLoop: one turn of the loop with a window still open
DisplayBody ==
    /\ dispPc = "body"
    /\ dispPc' = "head"
    /\ UNCHANGED <<sysVars, codecVars, storeVars, wireVars, stopPc, acceptPc,
                   cliStopped, capVars>>

\* updateDisplayLoop: all windows are closed: c.Stop(); break
DisplayClose ==
    /\ dispPc = "body"
    /\ ~cliStopped
    /\ cliStopped' = TRUE
    /\ peerClosed' = [peerClosed EXCEPT !["client"] = TRUE]
    /\ dispPc' = "returned"
    /\ UNCHANGED <<srvVars, dialled, toClient, toServer, connClosed, wrkVars,
                   cliVars, envVars, histVars, codecVars, storeVars, wireVars,
                   stopPc, acceptPc, capVars>>

\* What the endpoint sends to the client here: a handshake, then frames
StopPackets ==
    { Pkt(PacketTypeHandshake, EncodeMonitorConfig(DetectMonitors(1))),
      Pkt(PacketTypeVideoFrame, Uint32ToBytes(U32(1)) \o SOI \o <<17, 34>>) }

NextStop ==
    \/ \E c \in Conns :
          \/ Accept(c) \/ RegisterAccepted(c) \/ SendHandshake(c) \/ LoopCheck(c)
          \/ ReadPacket(c) \/ ReadError(c) \/ MapStep(c)
          \/ CloseConn(c) \/ Unregister(c)
    \/ AcceptReturn \/ StopBegin \/ StopCloseAll
    \/ \E m \in Workers :
          \/ GateRunning(m) \/ WorkerReturn(m) \/ Lock(m) \/ WriteFrame(m)
          \/ \E c \in Conns : RangeClient(m, c)
    \/ CliRecvHandshake \/ CliHandshakeError \/ CliSendConfig
    \/ CliRecvRunning \/ CliRecvError \/ CliRecvStopped
    \/ ClientStop \/ DisplayHead \/ DisplayBody \/ DisplayClose
    \/ \E packet \in SessionPackets : RawSend(packet)
    \/ RawRecv \/ RawClose
    \/ \E packet \in StopPackets : ForeignSend(packet)
    \/ ForeignRecv \/ ForeignClose

\* Server.Stop called again, after or during an earlier call: close(s.stopChan)
\* on the closed channel panics and the server's process ends with its
\* goroutines and its sockets
StopAgain ==
    /\ stopPc \in {"closing", "returned"}
    /\ stopPc' = "panic"
    /\ acceptPc' = "panic"
    /\ hpc' = [c \in Conns |-> "panic"]
    /\ wpc' = [m \in Workers |-> "panic"]
    /\ connClosed' = [c \in Conns |-> connClosed[c] \/ dialled[c]]
    /\ UNCHANGED <<monitors, clients, clientsMutex, hLocal, dialled, toClient,
                   toServer, peerClosed, wTodo, wCur, wFailed, cliVars, envVars,
                   histVars, codecVars, storeVars, wireVars, cliStopped, dispPc,
                   capVars>>

\* Client.Stop called from outside the loops on a client already stopped:
\* close(c.stopChan) on the closed channel panics and the process ends, the
\* display loop with it
ClientStopAgain ==
    /\ cliPhase = "running"
    /\ cliStopped
    /\ cliPhase' = "panic"
    /\ dispPc' = "killed"
    /\ peerClosed' = [peerClosed EXCEPT !["client"] = TRUE]
    /\ UNCHANGED <<srvVars, dialled, toClient, toServer, connClosed, wrkVars,
                   serverMonitors, localMonitors, monitorMap, frameBuffers,
                   envVars, histVars, codecVars, storeVars, wireVars, stopPc,
                   acceptPc, cliStopped, capVars>>

\* updateDisplayLoop: all windows are closed and the client was stopped after
\* the loop's test of c.stopped: c.Stop() closes the closed channel and panics
DisplayCloseStopped ==
    /\ dispPc = "body"
    /\ cliStopped
    /\ cliPhase' = "panic"
    /\ dispPc' = "panic"
    /\ peerClosed' = [peerClosed EXCEPT !["client"] = TRUE]
    /\ UNCHANGED <<srvVars, dialled, toClient, toServer, connClosed, wrkVars,
                   serverMonitors, localMonitors, monitorMap, frameBuffers,
                   envVars, histVars, codecVars, storeVars, wireVars, stopPc,
                   acceptPc, cliStopped, capVars>>

\* Shutdown with Stop called any number of times
NextStopTwice ==
    \/ NextStop
    \/ StopAgain
    \/ ClientStopAgain
    \/ DisplayCloseStopped

SpecStopTwice == InitStop /\ [][NextStopTwice]_vars

\* The goroutines of the server and of the client are scheduled whenever they
\* can take a step, and a goroutine waiting for s.clientsMutex gets it in the
\* end; nothing is assumed of the peers or of whoever calls Stop
HandlerStep(c) ==
    \/ SendHandshake(c) \/ LoopCheck(c) \/ ReadPacket(c) \/ ReadError(c)
    \/ MapStep(c) \/ CloseConn(c)

HandlerLockStep(c) == RegisterAccepted(c) \/ Unregister(c)

WorkerStep(m) ==
    \/ WorkerReturn(m) \/ WriteFrame(m)
    \/ \E c \in Conns : RangeClient(m, c)

WorkerLockStep(m) == GateRunning(m) \/ Lock(m)

FairStop ==
    /\ WF_vars(\E c \in Conns : HandlerStep(c))
    /\ SF_vars(\E c \in Conns : HandlerLockStep(c))
    /\ WF_vars(\E m \in Workers : WorkerStep(m))
    /\ SF_vars(\E m \in Workers : WorkerLockStep(m))
    /\ WF_vars(AcceptReturn)
    /\ SF_vars(StopCloseAll)
    /\ WF_vars(CliRecvStopped)
    /\ WF_vars(DisplayHead \/ DisplayBody)

SpecStop == InitStop /\ [][NextStop]_vars /\ FairStop

\* ========================================================================
\* The client's frame store by reference: updateFrameBuffer against the
\* display loop, for one mapped monitor
\* ========================================================================
MaxFrames == 3   \* frames the receive goroutine stores, f1 .. fMaxFrames
MaxReads == 2    \* reads of the window's frame the display loop makes

\* The k-th frame: JPEG bytes of one length that differ in two places
Frame(k) == SOI \o <<k, k + 16>>

\* The slice the entry already has, grown to n bytes within its capacity
ReuseBuffer(heap, current, n) ==
    [heap |-> [heap EXCEPT ![current.buf] =
                  IF Len(@) < n THEN @ \o Zeros(n - Len(@)) ELSE @],
     buf |-> current.buf]

\* newBuffer := make([]byte, len(frameData)): a zeroed slice nobody else
\* refers to
NewBuffer(heap, current, n) ==
    [heap |-> Append(heap, Zeros(n)), buf |-> Len(heap) + 1]

\* After handleHandshake: createMonitorMapping has put an empty slice under the
\* local id, and the display loop and the receive goroutine start
StoreInit ==
    /\ fHeap = << <<>> >>
    /\ fStore = [buf |-> 1, len |-> 0]
    /\ frameMutex = "free"
    /\ net = [pc |-> "idle", buf |-> 0, idx |-> 0, stored |-> 0]
    /\ disp = [pc |-> "idle", slice |-> [buf |-> 0, len |-> 0], got |-> <<>>,
               start |-> 0, reads |-> <<>>]
    /\ SysIdle
    /\ CodecIdle
    /\ WireIdle
    /\ StopIdle /\ CapIdle

\* updateFrameBuffer: c.frameMutex.Lock(); the map lookup hits and the SOI
\* check passes; newBuffer is allocated
NetLock ==
    /\ net.pc = "idle"
    /\ net.stored < MaxFrames
    /\ frameMutex = "free"
    /\ frameMutex' = "net"
    /\ LET frameData == Frame(net.stored + 1)
           made == NewBuffer(fHeap, fStore, Len(frameData))
       IN  /\ fHeap' = made.heap
           /\ net' = [net EXCEPT !.pc = "copy", !.buf = made.buf, !.idx = 0]
    /\ UNCHANGED <<fStore, disp, sysVars, codecVars, wireVars, stopVars, capVars>>

\* copy(newBuffer, frameData), one byte
NetCopy ==
    /\ net.pc = "copy"
    /\ LET frameData == Frame(net.stored + 1)
       IN  /\ net.idx < Len(frameData)
           /\ fHeap' = [fHeap EXCEPT ![net.buf][net.idx + 1] = frameData[net.idx + 1]]
           /\ net' = [net EXCEPT !.idx = @ + 1]
    /\ UNCHANGED <<fStore, frameMutex, disp, sysVars, codecVars, wireVars, stopVars, capVars>>

\* c.frameBuffers[localMonitorID] = newBuffer; the deferred Unlock
NetStore ==
    /\ net.pc = "copy"
    /\ net.idx = Len(Frame(net.stored + 1))
    /\ fStore' = [buf |-> net.buf, len |-> net.idx]
    /\ frameMutex' = "free"
    /\ net' = [net EXCEPT !.pc = "idle", !.stored = @ + 1]
    /\ UNCHANGED <<fHeap, disp, sysVars, codecVars, wireVars, stopVars, capVars>>

\* The read is over: what it returned, and how many frames had been stored
\* when it took the entry and when it returned
Returned(d, bytes) ==
    [d EXCEPT !.pc = "idle", !.got = <<>>,
              !.reads = Append(@, [start |-> d.start, end |-> net.stored,
                                   frame |-> bytes])]

\* updateDisplayLoop: Lock; frameData, exists := c.frameBuffers[monitorID];
\* Unlock; an empty slice means no frame yet
DispGet ==
    /\ disp.pc = "idle"
    /\ Len(disp.reads) < MaxReads
    /\ frameMutex = "free"
    /\ LET d == [disp EXCEPT !.slice = fStore, !.start = net.stored]
       IN  disp' = IF fStore.len = 0 THEN Returned(d, <<>>)
                   ELSE [d EXCEPT !.pc = "decode"]
    /\ UNCHANGED <<fHeap, fStore, frameMutex, net, sysVars, codecVars, wireVars, stopVars, capVars>>

\* jpeg.Decode reads the slice, with no lock held, one byte at a time
DispReadByte ==
    /\ disp.pc = "decode"
    /\ LET got == Append(disp.got, fHeap[disp.slice.buf][Len(disp.got) + 1])
       IN  disp' = IF Len(got) = disp.slice.len THEN Returned(disp, got)
                   ELSE [disp EXCEPT !.got = got]
    /\ UNCHANGED <<fHeap, fStore, frameMutex, net, sysVars, codecVars, wireVars, stopVars, capVars>>

StoreNext == NetLock \/ NetCopy \/ NetStore \/ DispGet \/ DispReadByte

SpecStore == StoreInit /\ [][StoreNext]_vars

\* ---- the display loop of display.go, and a remap from the network ----
\* handlePacket, PacketTypeMonitorConfig: createMonitorMapping puts a fresh
\* empty slice under the local id; c.frameMutex is not taken
NetRemap ==
    /\ net.pc = "idle"
    /\ Len(fHeap) <= MaxFrames
    /\ fHeap' = Append(fHeap, <<>>)
    /\ fStore' = [buf |-> Len(fHeap) + 1, len |-> 0]
    /\ UNCHANGED <<frameMutex, net, disp, sysVars, codecVars, wireVars, stopVars, capVars>>

\* updateDisplayLoop of display.go: c.frameMutex.Lock(); frameData, exists :=
\* c.frameBuffers[monitorID]; an empty slice is skipped and the loop over the
\* windows ends: Unlock
DispGetLocked ==
    /\ disp.pc = "idle"
    /\ Len(disp.reads) < MaxReads
    /\ frameMutex = "free"
    /\ LET d == [disp EXCEPT !.slice = fStore, !.start = net.stored]
       IN  IF fStore.len = 0
           THEN /\ disp' = Returned(d, <<>>)
                /\ UNCHANGED frameMutex
           ELSE /\ disp' = [d EXCEPT !.pc = "decode"]
                /\ frameMutex' = "display"
    /\ UNCHANGED <<fHeap, fStore, net, sysVars, codecVars, wireVars, stopVars, capVars>>

\* renderFrame: jpeg.Decode reads the slice one byte at a time and the GL
\* calls follow, inside the locked region; c.frameMutex.Unlock() after the
\* loop over the windows
DispRenderLocked ==
    /\ disp.pc = "decode"
    /\ LET got == Append(disp.got, fHeap[disp.slice.buf][Len(disp.got) + 1])
       IN  IF Len(got) = disp.slice.len
           THEN /\ disp' = Returned(disp, got)
                /\ frameMutex' = "free"
           ELSE /\ disp' = [disp EXCEPT !.got = got]
                /\ UNCHANGED frameMutex
    /\ UNCHANGED <<fHeap, fStore, net, sysVars, codecVars, wireVars, stopVars, capVars>>

DisplayNext ==
    \/ NetLock \/ NetCopy \/ NetStore \/ NetRemap
    \/ DispGetLocked \/ DispRenderLocked

SpecDisplay == StoreInit /\ [][DisplayNext]_vars

\* ========================================================================
\* captureMonitor, one turn of the capture loop at a time: which capture calls
\* it makes and what it hands to the dispatch
\* ========================================================================
MaxTurns == 10   \* captures a worker makes (frameCount), so frameCount % 10 = 0 occurs

\* x = -2560 (4294964736) and y = -1080 (4294966216) as detectMonitors stores
\* them, uint32(bounds.Min.X), in 16-bit halves
NegativeX == <<65535, 62976>>
NegativeY == <<65535, 64456>>

\* The second display stands right of the first, left of it, or above it
CaptureConfigs ==
    { [MonitorCount |-> U32(2),
       Monitors |-> << DetectMonitors(2).Monitors[1],
                       [DetectMonitors(2).Monitors[2] EXCEPT
                           !.PositionX = at[1], !.PositionY = at[2]] >>] :
         at \in { <<U32(1920), U32(0)>>, <<NegativeX, U32(0)>>,
                  <<U32(0), NegativeY>> } }

\* Every position passes
isValidCoordsAlways(monitor) == TRUE

\* isValidCoords: false when monitor.PositionX > 10000 || monitor.PositionY > 10000
isValidCoords(monitor) ==
    ~(U32Less(U32(10000), monitor.PositionX) \/ U32Less(U32(10000), monitor.PositionY))

\* displayIndex := int(monitor.ID) - 1
displayIndex(monitor) == U32ToNat(monitor.ID) - 1

\* displayIndex >= 0 && displayIndex < screenshot.NumActiveDisplays()
IndexInRange(index, displays) == index >= 0 /\ index < displays

\* A capture call is written <<function, display index, succeeded, why>>.
\* What the external calls of one turn return: clients (len(s.clients) > 0),
\* rect (CaptureRect succeeds), display (CaptureDisplay succeeds), empty
\* (the image's bounds are empty), black (every sampled pixel is black), alt
\* (the alternative CaptureDisplay succeeds), encode (jpeg.Encode succeeds)
Outcomes ==
    [clients : BOOLEAN, rect : BOOLEAN, display : BOOLEAN, empty : BOOLEAN,
     black : BOOLEAN, alt : BOOLEAN, encode : BOOLEAN]

\* A turn that ends in `continue`: no frame, the sleep that precedes it
NoFrame(calls, frameCount, sleep) ==
    [calls |-> calls, frame |-> <<>>, sleep |-> sleep, frameCount |-> frameCount]

\* The capture failed for good and the turn ends at once
AfterCaptureErrorNoSleep(calls, frameCount) == NoFrame(calls, frameCount, 0)

\* The capture failed for good: time.Sleep(1 * time.Second); continue
AfterCaptureError(calls, frameCount) == NoFrame(calls, frameCount, 1000)

\* The turn from the frame counter on: the empty and black checks, the
\* alternative capture on every tenth frame, jpeg.Encode, frameData
AfterCapture(monitor, calls, frameCount, displays, o) ==
    LET index == displayIndex(monitor)
        callsAlt == IF o.black /\ isValidCoords(monitor) /\ frameCount % 10 = 0
                       /\ IndexInRange(index, displays)
                    THEN Append(calls, <<"CaptureDisplay", index, o.alt, "alternative">>)
                    ELSE calls
    IN  IF o.empty THEN NoFrame(calls, frameCount, 100)
        ELSE IF ~o.encode THEN NoFrame(callsAlt, frameCount, 0)
        ELSE [calls |-> callsAlt, frame |-> FrameData(monitor), sleep |-> 33,
              frameCount |-> frameCount]

\* One turn of the loop for !s.stopped
CaptureIteration(monitor, frameCount, displays, o) ==
    LET index == displayIndex(monitor)
        valid == isValidCoords(monitor)
        inRange == IndexInRange(index, displays)
        rect == <<"CaptureRect", 0, o.rect, "first">>
        display == <<"CaptureDisplay", index, o.display,
                     IF valid THEN "fallback" ELSE "first">>
    IN  IF ~o.clients THEN NoFrame(<<>>, frameCount, 500)
        ELSE IF valid
        THEN IF o.rect THEN AfterCapture(monitor, <<rect>>, frameCount + 1, displays, o)
             ELSE IF inRange
             THEN IF o.display
                  THEN AfterCapture(monitor, <<rect, display>>, frameCount + 1,
                                    displays, o)
                  ELSE AfterCaptureError(<<rect, display>>, frameCount)
             ELSE AfterCaptureError(<<rect>>, frameCount)
        ELSE IF inRange
        THEN IF o.display
             THEN AfterCapture(monitor, <<display>>, frameCount + 1, displays, o)
             ELSE AfterCaptureError(<<display>>, frameCount)
        ELSE NoFrame(<<>>, frameCount, 1000)

\* startScreenCapture: go s.captureMonitor(monitor) for every monitor
CaptureInit ==
    /\ \E config \in CaptureConfigs :
          cap = [w \in DOMAIN config.Monitors |->
                    [monitor |-> config.Monitors[w], turns |-> 0,
                     last |-> NoFrame(<<>>, 0, 0)]]
    /\ SysIdle
    /\ CodecIdle
    /\ StoreIdle
    /\ WireIdle
    /\ StopIdle

\* screenshot.NumActiveDisplays(): the displays detectMonitors found
NumActiveDisplays == Len(cap)

\* Worker w makes one turn of its loop
CaptureTurn(w) ==
    /\ cap[w].last.frameCount < MaxTurns
    /\ \E o \in Outcomes :
          cap' = [cap EXCEPT
                     ![w].last = CaptureIteration(cap[w].monitor,
                                                  cap[w].last.frameCount,
                                                  NumActiveDisplays, o),
                     ![w].turns = 1]
    /\ UNCHANGED <<sysVars, codecVars, storeVars, wireVars, stopVars>>

CaptureNext == \E w \in DOMAIN cap : CaptureTurn(w)

SpecCapture == CaptureInit /\ [][CaptureNext]_vars

\* ========================================================================
\* One session's connection, write by write: EncodePacket makes one Write per
\* field.  The session is registered and both monitors are mapped; the two
\* capture workers send it frames and its reader answers Pings.
\* ========================================================================
MaxCalls == 1    \* EncodePacket calls each writer makes

CaptureWriters == {"captureMonitor1", "captureMonitor2"}
Writers == CaptureWriters \cup {"handlePacket"}

\* The packet each writer encodes
WirePacket(w) ==
    CASE w = "captureMonitor1" ->
             Pkt(PacketTypeVideoFrame, FrameData(DetectMonitors(2).Monitors[1]))
      [] w = "captureMonitor2" ->
             Pkt(PacketTypeVideoFrame, FrameData(DetectMonitors(2).Monitors[2]))
      [] w = "handlePacket" -> Pkt(PacketTypePong, <<7>>)

\* Where a field starts in the encoded packet
FieldOffset(field) ==
    CASE field = "Type" -> 0
      [] field = "Timestamp" -> TypeSize
      [] field = "Length" -> TypeSize + TimestampSize
      [] field = "Payload" -> HeaderSize

\* The bytes one binary.Write / w.Write of EncodePacket hands to the connection
FieldBytes(packet, field) ==
    SubSeq(EncodePacket(packet), FieldOffset(field) + 1,
           FieldOffset(field) + FieldSize(field, packet))

WireInit ==
    /\ wire = <<>>
    /\ enc = [w \in Writers |-> [pc |-> "idle", field |-> "Type", calls |-> 0]]
    /\ encMutex = "free"
    /\ SysIdle
    /\ CodecIdle
    /\ StoreIdle
    /\ StopIdle /\ CapIdle

\* captureMonitor: s.clientsMutex.Lock(), the range loop reaches the session
\* and EncodePacket(client.conn, packet) begins
CaptureBegin(w) ==
    /\ enc[w].pc = "idle"
    /\ enc[w].calls < MaxCalls
    /\ encMutex = "free"
    /\ encMutex' = w
    /\ enc' = [enc EXCEPT ![w].pc = "encode", ![w].field = "Type"]
    /\ UNCHANGED <<wire, sysVars, codecVars, storeVars, stopVars, capVars>>

\* handlePacket: a Ping was read and EncodePacket(client.conn, pongPacket)
\* begins; no lock is taken
PongBegin ==
    /\ enc["handlePacket"].pc = "idle"
    /\ enc["handlePacket"].calls < MaxCalls
    /\ enc' = [enc EXCEPT !["handlePacket"].pc = "encode",
                          !["handlePacket"].field = "Type"]
    /\ UNCHANGED <<wire, encMutex, sysVars, codecVars, storeVars, stopVars, capVars>>

\* EncodePacket: the Write of one field; after the last one the call returns,
\* and the capture worker leaves the range loop and unlocks
WriteField(w) ==
    /\ enc[w].pc = "encode"
    /\ LET packet == WirePacket(w)
           field == enc[w].field
           next == NextField(packet, field)
       IN  /\ wire' = Append(wire, [by |-> w, call |-> enc[w].calls + 1,
                                    field |-> field,
                                    bytes |-> FieldBytes(packet, field)])
           /\ IF next = "return"
              THEN /\ enc' = [enc EXCEPT ![w].pc = "idle", ![w].calls = @ + 1]
                   /\ encMutex' = IF w \in CaptureWriters THEN "free" ELSE encMutex
              ELSE /\ enc' = [enc EXCEPT ![w].field = next]
                   /\ UNCHANGED encMutex
    /\ UNCHANGED <<sysVars, codecVars, storeVars, stopVars, capVars>>

WireNext ==
    \/ \E w \in CaptureWriters : CaptureBegin(w)
    \/ PongBegin
    \/ \E w \in Writers : WriteField(w)

SpecWrites == WireInit /\ [][WireNext]_vars

\* ========================================================================
\* Claims
\* ========================================================================

\* C1: for every packet with a type in 0x01..0x0A, Length = len(Payload) and any
\* signed 64-bit timestamp, DecodePacket on the bytes EncodePacket wrote returns
\* no error and a packet with the same Type, Timestamp, Length and Payload, and
\* consumes exactly 13 + Length bytes of the reader.
C1_PacketRoundTrip ==
    rtPacket # NoResult =>
        /\ cPacket.Type \in PacketTypes
        /\ cPacket.Length = U32(Len(cPacket.Payload))
        /\ rtPacket.err = FALSE
        /\ rtPacket.packet.Type = cPacket.Type
        /\ rtPacket.packet.Timestamp = cPacket.Timestamp
        /\ rtPacket.packet.Length = cPacket.Length
        /\ rtPacket.packet.Payload = cPacket.Payload
        /\ rtPacket.consumed = 13 + Len(cPacket.Payload)

\* A packet with a negative timestamp and a payload has made the round trip
C1_Witness ==
    /\ rtPacket # NoResult
    /\ cPacket.Timestamp[1] < 0
    /\ Len(cPacket.Payload) > 1

\* Bytes of the encodings of the first k packets
RECURSIVE EncodedLen(_, _)
EncodedLen(packets, k) ==
    IF k = 0 THEN 0
    ELSE EncodedLen(packets, k - 1) + Len(EncodePacket(packets[k]))

\* How many packets have been delivered to the reader whole
WholeDelivered ==
    Cardinality({k \in 1..cWritten : EncodedLen(cPackets, k) <= cDelivered})

\* C2: with the encodings of p1..pn delivered in chunks of any small size,
\* successive DecodePacket calls return p1..pn in order (every packet delivered
\* whole is returned once its bytes are consumed); a stream cut inside the n-th
\* packet gives p1..p(n-1) and then an error with no packet, and an error arises
\* only from a cut.
C2_StreamFraming ==
    /\ Len(cOut) <= WholeDelivered
    /\ \A i \in 1..Len(cOut) : cOut[i] = cPackets[i]
    /\ (cAvail = <<>> /\ ~dErr) => Len(cOut) = WholeDelivered
    /\ dErr => (cEOF /\ Len(cOut) = WholeDelivered /\ dPacket = NilPacket)

\* The stream was cut inside the second of two packets: one packet was returned
\* and the second call failed
C2_Witness ==
    /\ dErr
    /\ Len(cPackets) = 2
    /\ Len(cOut) = 1
    /\ cDelivered > EncodedLen(cPackets, 1)
    /\ cDelivered < EncodedLen(cPackets, 2)

\* C3: for every MonitorConfig whose MonitorCount is the number of its monitors,
\* DecodeMonitorConfig(EncodeMonitorConfig(c)) succeeds and returns c: the same
\* count and, in order, the same id, size, position and primary flag.
C3_MonitorConfigRoundTrip ==
    rtConfig # NoResult =>
        /\ cConfig.MonitorCount = U32(Len(cConfig.Monitors))
        /\ rtConfig.err = "nil"
        /\ rtConfig.config.MonitorCount = cConfig.MonitorCount
        /\ Len(rtConfig.config.Monitors) = Len(cConfig.Monitors)
        /\ \A i \in 1..Len(cConfig.Monitors) :
               rtConfig.config.Monitors[i] = cConfig.Monitors[i]

\* A configuration of two monitors, one at x = 4294964736, has made the round trip
C3_Witness ==
    /\ rtConfig # NoResult
    /\ Len(cConfig.Monitors) = 2
    /\ cConfig.Monitors[2].PositionX = <<65535, 62976>>
    /\ cConfig.Monitors[1].Primary /\ ~cConfig.Monitors[2].Primary

\* ------------------------------------------------------------------------
\* C4
\* ------------------------------------------------------------------------
\* What the server wrote first is its Handshake, and a client whose first
\* packet was no Handshake has failed without writing or mapping anything
C4_Order ==
    /\ \A c \in Conns :
          firstToClient[c] # NilPacket =>
              /\ firstToClient[c].Type = PacketTypeHandshake
              /\ DecodeMonitorConfig(firstToClient[c].Payload)
                     = [err |-> "nil", config |-> monitors]
    /\ (cliFirst # NilPacket /\ cliFirst.Type # PacketTypeHandshake) =>
          /\ cliPhase = "failed"
          /\ monitorMap = EmptyMap
          /\ serverMonitors = NilConfig

\* A write of the client on its connection is its MonitorConfig, made after a
\* Handshake was the first packet it read
C4_ClientSends ==
    Len(toServer'["client"]) > Len(toServer["client"]) =>
        /\ cliFirst.Type = PacketTypeHandshake
        /\ toServer'["client"] =
               Append(toServer["client"],
                      Pkt(PacketTypeMonitorConfig, EncodeMonitorConfig(localMonitors)))

\* Both sides are through the handshake: the client holds the server's
\* configuration and runs, the server has decoded the client's
HandshakeDone ==
    /\ cliPhase = "running"
    /\ serverMonitors = monitors
    /\ hpc["client"] \in {"register", "done"}
    /\ hLocal["client"].clientMonitors = localMonitors
    /\ ~connClosed["client"]

\* C4: on every connection the first packet the server writes is a Handshake
\* carrying the server's MonitorConfig; the client writes its MonitorConfig
\* only after it has read that Handshake; a first packet that is no Handshake
\* makes the client's handshake fail; and with the client and the server both
\* scheduled the handshake always completes.
C4_Handshake ==
    /\ []C4_Order
    /\ [][C4_ClientSends]_vars
    /\ (dialled["client"] ~> HandshakeDone)

\* The handshake between a server of two monitors and a client of one is
\* complete
C4_Witness ==
    /\ dialled["client"]
    /\ HandshakeDone
    /\ Len(monitors.Monitors) = 2
    /\ Len(localMonitors.Monitors) = 1
    /\ firstToClient["client"].Type = PacketTypeHandshake

\* ------------------------------------------------------------------------
\* C5
\* ------------------------------------------------------------------------
\* A first packet that is no MonitorConfig, or whose payload does not decode
BadFirst(packet) ==
    \/ packet.Type # PacketTypeMonitorConfig
    \/ DecodeMonitorConfig(packet.Payload).err # "nil"

\* C5: once the server has dealt with a first packet from a connection that is
\* not a MonitorConfig, or does not decode as one, the connection is closed and
\* the peer is not registered as an active session.
C5_BadFirstPacketCloses ==
    \A c \in Conns :
        (/\ firstRead[c] # NilPacket
         /\ BadFirst(firstRead[c])
         /\ hpc[c] \in {"loop", "read", "done"})
        => /\ connClosed[c]
           /\ ~(c \in DOMAIN clients /\ clients[c].active)

\* ------------------------------------------------------------------------
\* C6
\* ------------------------------------------------------------------------
\* C6: once mapMonitors has run over a client's MonitorConfig C on a server
\* with MonitorConfig S, the session's map has exactly min(S.count, C.count)
\* entries, maps S.monitors[i].id to C.monitors[i].id for every i below that
\* bound, and has no server id from a position beyond the bound as a key.
C6_MonitorMap ==
    \A c \in DOMAIN clients :
        hLocal[c].mapped =>
            LET C == hLocal[c].clientMonitors
                n == Min(U32ToNat(monitors.MonitorCount), U32ToNat(C.MonitorCount))
                map == clients[c].monitorMap
            IN  /\ Cardinality(DOMAIN map) = n
                /\ \A i \in 1..n :
                      /\ monitors.Monitors[i].ID \in DOMAIN map
                      /\ map[monitors.Monitors[i].ID] = C.Monitors[i].ID
                /\ \A i \in (n + 1)..Len(monitors.Monitors) :
                      monitors.Monitors[i].ID \notin DOMAIN map

\* A peer with one monitor on a server with two: one entry, and the second
\* server monitor is not a key
C6_Witness ==
    /\ "raw" \in DOMAIN clients
    /\ hLocal["raw"].mapped
    /\ Len(monitors.Monitors) = 2
    /\ Len(hLocal["raw"].clientMonitors.Monitors) = 1
    /\ DOMAIN clients["raw"].monitorMap = {U32(1)}

\* ------------------------------------------------------------------------
\* C7
\* ------------------------------------------------------------------------
Injective(map) == \A a, b \in DOMAIN map : map[a] = map[b] => a = b

\* C7: in every reachable state the monitor map of every session on the server
\* and the monitor map of the client are partial injections: no two server
\* monitor ids map to the same client/local monitor id, whatever MonitorConfig
\* the peer sent.
C7_PartialInjections ==
    /\ Injective(monitorMap)
    /\ \A c \in DOMAIN clients : Injective(clients[c].monitorMap)

\* ------------------------------------------------------------------------
\* C8
\* ------------------------------------------------------------------------
\* The server monitor a VideoFrame packet is addressed to
FrameMonitor(packet) == BytesToUint32(SubSeq(packet.Payload, 1, 4))

\* Frames in flight to a session, and the frame a worker is about to write,
\* are for monitors the session's map has contained
C8_Received ==
    /\ \A c \in Conns : \A k \in 1..Len(toClient[c]) :
          (dialled[c] /\ toClient[c][k].Type = PacketTypeVideoFrame)
              => FrameMonitor(toClient[c][k]) \in everMapped[c]
    /\ \A m \in Workers :
          wpc[m] = "write" => monitors.Monitors[m].ID \in everMapped[wCur[m]]

\* A worker decides to write to a session only while it holds the registry
\* lock and the session is active with the worker's monitor in its map, and
\* only such a worker puts a VideoFrame on a connection
C8_Dispatch ==
    /\ \A m \in Workers :
          (wpc'[m] = "write" /\ wpc[m] # "write") =>
              /\ clientsMutex = m
              /\ wCur'[m] \in DOMAIN clients
              /\ clients[wCur'[m]].active
              /\ monitors.Monitors[m].ID \in DOMAIN clients[wCur'[m]].monitorMap
    /\ \A c \in Conns :
          (/\ dialled[c]
           /\ Len(toClient'[c]) > Len(toClient[c])
           /\ toClient'[c][Len(toClient'[c])].Type = PacketTypeVideoFrame)
          => \E m \in Workers :
                /\ wpc[m] = "write" /\ wCur[m] = c /\ clientsMutex = m
                /\ toClient'[c][Len(toClient'[c])].Payload
                       = FrameData(monitors.Monitors[m])

\* C8: the capture worker of server monitor m writes a VideoFrame only on the
\* connection of a session that was active and had m in its monitor map when
\* the dispatch loop looked it up, and a session whose map has not contained m
\* gets no frame addressed to m.
C8_FramesOnlyToMapped == []C8_Received /\ [][C8_Dispatch]_vars

\* A session that maps only the first of two server monitors has a frame of
\* monitor 1 in flight while the worker of monitor 2 has taken its turn
C8_Witness ==
    /\ "raw" \in DOMAIN clients
    /\ Len(monitors.Monitors) = 2
    /\ DOMAIN clients["raw"].monitorMap = {U32(1)}
    /\ toClient["raw"] # <<>>
    /\ toClient["raw"][1].Type = PacketTypeVideoFrame
    /\ FrameMonitor(toClient["raw"][1]) = U32(1)
    /\ wpc[2] = "lock"

\* ------------------------------------------------------------------------
\* C9
\* ------------------------------------------------------------------------
\* Which frame a read returned: 0 for no frame, k for fk, -1 for anything else
FrameIndex(bytes) ==
    IF bytes = <<>> THEN 0
    ELSE IF \E k \in 1..MaxFrames : bytes = Frame(k)
    THEN CHOOSE k \in 1..MaxFrames : bytes = Frame(k)
    ELSE -1

\* C9: with the receive goroutine storing f1, f2, f3 in that order and the
\* display loop reading in any interleaving, every read returns no frame or
\* one whole fk that had been stored when the read began, never a mixture and
\* never a frame older than one an earlier read returned, and a read that
\* begins after the last frame is stored returns that frame.
C9_FrameStoreReads ==
    /\ \A i \in 1..Len(disp.reads) :
          LET r == disp.reads[i]
          IN  /\ FrameIndex(r.frame) \in 0..r.start
              /\ r.start = MaxFrames => r.frame = Frame(MaxFrames)
    /\ \A i, j \in 1..Len(disp.reads) :
          i < j => FrameIndex(disp.reads[i].frame) <= FrameIndex(disp.reads[j].frame)

\* A read that began while f2 was the stored frame returned f2 after f3 had
\* been stored, and the next read returned f3
C9_Witness ==
    /\ Len(disp.reads) = 2
    /\ disp.reads[1] = [start |-> 2, end |-> 3, frame |-> Frame(2)]
    /\ disp.reads[2] = [start |-> 3, end |-> 3, frame |-> Frame(3)]

\* ------------------------------------------------------------------------
\* C10
\* ------------------------------------------------------------------------
\* C10: when the client takes a VideoFrame whose first four payload bytes are
\* a server monitor id in its monitor map and whose further bytes begin with
\* FF D8, the frame-store entry of the mapped local id becomes exactly the
\* bytes after the four-byte prefix and every other entry stays as it was: no
\* entry appears under any other id.
C10_StoreStep ==
    (/\ cliPhase = "running"
     /\ toClient["client"] # <<>>
     /\ toClient'["client"] = Tail(toClient["client"])
     /\ Head(toClient["client"]).Type = PacketTypeVideoFrame
     /\ Len(Head(toClient["client"]).Payload) >= 6
     /\ Uint32(SubSeq(Head(toClient["client"]).Payload, 1, 4)) \in DOMAIN monitorMap
     /\ SubSeq(Head(toClient["client"]).Payload, 5, 6) = <<255, 216>>)
    => LET payload == Head(toClient["client"]).Payload
           local == monitorMap[Uint32(SubSeq(payload, 1, 4))]
       IN  /\ DOMAIN frameBuffers' = DOMAIN frameBuffers \cup {local}
           /\ frameBuffers'[local] = SubSeq(payload, 5, Len(payload))
           /\ \A id \in DOMAIN frameBuffers :
                 id # local => frameBuffers'[id] = frameBuffers[id]

C10_VideoFrameStored == [][C10_StoreStep]_vars

\* The client of two monitors has stored a frame of server monitor 1 under
\* local id 1, and the entry of local id 2 is as createMonitorMapping left it
C10_Witness ==
    /\ cliPhase = "running"
    /\ DOMAIN frameBuffers = {U32(1), U32(2)}
    /\ frameBuffers[U32(1)] = <<255, 216, 17, 34>>
    /\ frameBuffers[U32(2)] = <<>>

\* C11: every non-empty entry of the client's frame store begins with FF D8;
\* a VideoFrame whose image bytes are shorter than 2 bytes or do not start with
\* FF D8 leaves the frame store as it was, and the receive loop stays running.
BadImage(packet) ==
    /\ packet.Type = PacketTypeVideoFrame
    /\ Len(packet.Payload) >= 4
    /\ \/ Len(packet.Payload) < 6
       \/ SubSeq(packet.Payload, 5, 6) # SOI

C11_Store ==
    \A id \in DOMAIN frameBuffers :
        frameBuffers[id] # <<>> =>
            /\ Len(frameBuffers[id]) >= 2
            /\ SubSeq(frameBuffers[id], 1, 2) = SOI

C11_BadFrameStep ==
    (/\ cliPhase = "running"
     /\ Len(toClient["client"]) > 0
     /\ toClient'["client"] = Tail(toClient["client"])
     /\ BadImage(Head(toClient["client"])))
        => /\ frameBuffers' = frameBuffers
           /\ cliPhase' = "running"

C11_StoreHoldsJPEG == []C11_Store /\ [][C11_BadFrameStep]_vars

\* The client's receive loop takes the packet at the head of its connection
CliTakes ==
    /\ cliPhase = "running"
    /\ Len(toClient["client"]) > 0
    /\ toClient'["client"] = Tail(toClient["client"])

CliHead == Head(toClient["client"])

\* C12: a VideoFrame whose payload is shorter than 4 bytes, or whose server
\* monitor id is not a key of the client's monitor map, leaves the frame store
\* and the monitor map unchanged, and the receive loop goes on to decode the
\* next packet.
Undeliverable(packet, map) ==
    /\ packet.Type = PacketTypeVideoFrame
    /\ \/ Len(packet.Payload) < 4
       \/ BytesToUint32(SubSeq(packet.Payload, 1, 4)) \notin DOMAIN map

C12_DropStep ==
    (CliTakes /\ Undeliverable(CliHead, monitorMap))
        => /\ frameBuffers' = frameBuffers
           /\ monitorMap' = monitorMap
           /\ cliPhase' = "running"

C12_GoesOn ==
    (cliPhase = "running" /\ cliLast # NilPacket /\ toClient["client"] # <<>>)
        => ENABLED CliRecv

C12_UndeliverableFrameDropped == []C12_GoesOn /\ [][C12_DropStep]_vars

\* A frame for monitor 1 was stored, then frames for the unmapped monitor 9 or
\* with a 2-byte payload were handled: the stored frame is still there
C12_Witness ==
    /\ cliPhase = "running"
    /\ cliLast # NilPacket
    /\ Undeliverable(cliLast, monitorMap)
    /\ U32(1) \in DOMAIN frameBuffers
    /\ frameBuffers[U32(1)] = SOI \o <<17, 34>>

\* C13: a MonitorConfig packet received mid-session replaces the client's
\* record of the server's configuration with the decoded one and rebuilds the
\* monitor map positionally from it and the local monitors: the map after the
\* packet depends only on the new configuration.
PositionalMap(server, local) ==
    LET n == Min(U32ToNat(server.MonitorCount), U32ToNat(local.MonitorCount))
        last(k) == CHOOSE i \in 1..n :
                      /\ server.Monitors[i].ID = k
                      /\ \A j \in (i + 1)..n : server.Monitors[j].ID # k
    IN  [k \in {server.Monitors[i].ID : i \in 1..n} |-> local.Monitors[last(k)].ID]

C13_RemapStep ==
    (/\ CliTakes
     /\ CliHead.Type = PacketTypeMonitorConfig
     /\ DecodeMonitorConfig(CliHead.Payload).err = "nil")
        => /\ serverMonitors' = DecodeMonitorConfig(CliHead.Payload).config
           /\ monitorMap' = PositionalMap(serverMonitors', localMonitors)
           /\ cliPhase' = "running"

C13_MonitorConfigRemaps == [][C13_RemapStep]_vars

\* The handshake announced MaxDisplays monitors and all were mapped; the
\* MonitorConfig that followed announces one, and only its entry is left
C13_Witness ==
    /\ cliFirst = Pkt(PacketTypeHandshake, EncodeMonitorConfig(DetectMonitors(MaxDisplays)))
    /\ localMonitors = DetectMonitors(MaxDisplays)
    /\ cliLast = Pkt(PacketTypeMonitorConfig, EncodeMonitorConfig(DetectMonitors(1)))
    /\ serverMonitors = DetectMonitors(1)
    /\ DOMAIN monitorMap = {U32(1)}
    /\ monitorMap[U32(1)] = U32(1)

\* C14: when writing a VideoFrame to one session fails, that session is marked
\* inactive, the capture worker keeps running, and in the same dispatch pass
\* every other active session whose map contains the monitor is still written
\* to; no capture worker and no session handler ends because of the failure.
C14_FailStep ==
    \A m \in Workers :
        (/\ wpc[m] = "write"
         /\ wpc'[m] # "write"
         /\ clients[wCur[m]].active
         /\ ~clients'[wCur[m]].active)
            => /\ wTodo'[m] = wTodo[m]
               /\ wpc'[m] = IF wTodo[m] = {} THEN "gate" ELSE "range"
               /\ DOMAIN clients' = DOMAIN clients
               /\ \A d \in DOMAIN clients \ {wCur[m]} : clients'[d] = clients[d]
               /\ hpc' = hpc
               /\ connClosed' = connClosed
               /\ \A other \in Workers \ {m} : wpc'[other] = wpc[other]

C14_VisitStep ==
    \A m \in Workers, d \in Conns :
        (/\ wpc[m] = "range"
         /\ d \in wTodo[m]
         /\ wTodo'[m] = wTodo[m] \ {d}
         /\ clients[d].active
         /\ monitors.Monitors[m].ID \in DOMAIN clients[d].monitorMap)
            => /\ wpc'[m] = "write"
               /\ wCur'[m] = d

C14_PassEnds ==
    \A m \in Workers :
        (wpc[m] \in {"range", "write"} /\ wpc'[m] = "gate") => wTodo'[m] = {}

C14_Running ==
    \A m \in Workers :
        /\ wpc[m] \in {"gate", "lock", "range", "write"}
        /\ wFailed[m] # {} => wpc[m] \in {"range", "write"}

C14_WriteErrorIsolated ==
    /\ []C14_Running
    /\ [][C14_FailStep /\ C14_VisitStep /\ C14_PassEnds]_vars

\* In one pass the write to the hand-driven peer has failed and the worker
\* now stands at the write to the client, whose connection has room
C14_Witness ==
    \E m \in Workers :
        /\ wpc[m] = "write"
        /\ wCur[m] = "client"
        /\ wFailed[m] = {"raw"}
        /\ ~clients["raw"].active
        /\ clients["client"].active
        /\ WriteOutcomes("client") = {"ok"}

C16_WritesSerialized ==
    \A i \in 1..(Len(wire) - 1) :
        NextField(WirePacket(wire[i].by), wire[i].field) # "return"
            => /\ wire[i + 1].by = wire[i].by
               /\ wire[i + 1].call = wire[i].call

\* C17: head-of-line blocking across sessions does not arise: while a write to
\* one session's connection is blocked, registration and removal of other
\* sessions, and the dispatch of other capture workers, can proceed.
C17_NoHeadOfLineBlocking ==
    \A m \in Workers :
        (wpc[m] = "write" /\ WriteOutcomes(wCur[m]) = {})
            => /\ \A d \in Conns \ {wCur[m]} :
                      /\ (dialled[d] /\ hpc[d] = "idle") => ENABLED Register(d)
                      /\ hpc[d] = "unregister" => ENABLED Unregister(d)
               /\ \A other \in Workers \ {m} :
                      wpc[other] \in {"gate", "lock"}
                          => ENABLED (Gate(other) \/ Lock(other))

\* C18: after Server.Stop is called, every capture worker returns after at most
\* one further loop iteration and the accept loop returns; after Client.Stop,
\* the client's receive loop and display loop return after at most one further
\* iteration.
C18_NoFurtherTurn ==
    /\ \A m \in Workers :
          (stopPc # "running" /\ wpc[m] = "gate") => wpc'[m] \in {"gate", "returned"}
    /\ (cliStopped /\ dispPc \in {"off", "head"}) => dispPc' \in {dispPc, "returned"}
    /\ (cliStopped /\ cliPhase = "running")
          => /\ cliPhase' \in {"running", "ended"}
             /\ cliLast' = cliLast
             /\ frameBuffers' = frameBuffers

C18_ServerLoopsReturn ==
    (stopPc # "running")
        ~> (acceptPc = "returned" /\ \A m \in Workers : wpc[m] = "returned")

C18_ClientLoopsReturn ==
    cliStopped ~> (cliPhase = "ended" /\ dispPc = "returned")

C18_LoopsReturnAfterStop ==
    /\ [][C18_NoFurtherTurn]_vars
    /\ C18_ServerLoopsReturn
    /\ C18_ClientLoopsReturn

\* C19: after Server.Stop returns, every client connection the server has
\* accepted is closed, also one that was accepted but not yet registered in the
\* session registry when Stop ran.
C19_StopClosesAccepted ==
    stopPc = "returned" => \A c \in Conns : hpc[c] # "idle" => connClosed[c]

\* C20: when the per-session reader hits a decode or I/O error, that session's
\* connection is closed and the session is removed from the registry, and no
\* other session's connection, monitor map, quality or active flag is changed.
C20_Order ==
    \A c \in Conns :
        /\ hpc[c] \in {"unregister", "done"} => connClosed[c]
        /\ hpc[c] = "done" => c \notin DOMAIN clients
        /\ hLocal[c].err => hpc[c] \in {"close", "unregister", "done"}

C20_ExitStep ==
    \A c \in Conns :
        (/\ hpc[c] \in {"read", "close", "unregister"}
         /\ hpc'[c] \in {"close", "unregister", "done"}
         /\ hpc'[c] # hpc[c])
            => /\ hpc'[c] = CASE hpc[c] = "read" -> "close"
                              [] hpc[c] = "close" -> "unregister"
                              [] hpc[c] = "unregister" -> "done"
                              [] OTHER -> "none"
               /\ \A d \in Conns \ {c} :
                      /\ connClosed'[d] = connClosed[d]
                      /\ (d \in DOMAIN clients) = (d \in DOMAIN clients')
                      /\ d \in DOMAIN clients => clients'[d] = clients[d]

C20_ReaderErrorClosesOwnSession == []C20_Order /\ [][C20_ExitStep]_vars

\* The reader of the hand-driven peer's session hit an error and is done; the
\* client's session is registered, active, mapped and open
C20_Witness ==
    /\ hpc["raw"] = "done"
    /\ hLocal["raw"].err
    /\ connClosed["raw"]
    /\ DOMAIN clients = {"client"}
    /\ clients["client"].active
    /\ DOMAIN clients["client"].monitorMap = {U32(1)}
    /\ ~connClosed["client"]


\* C21: when the client's receive task gets an error from DecodePacket, the
\* client session is torn down: the client is stopped and its Start call (the
\* display loop it ends in) eventually returns, rather than the display loop
\* running on without a receiver.
C21_ReceiveErrorTearsDown ==
    (cliPhase = "ended" /\ ~cliStopped) ~> (cliStopped /\ dispPc = "returned")


\* The reader of session c takes a QualityControl packet with at least one
\* payload byte off its connection in this step
QualityRead(c) ==
    /\ hpc[c] = "read"
    /\ hpc'[c] = "loop"
    /\ toServer[c] # <<>>
    /\ toServer'[c] = Tail(toServer[c])
    /\ Head(toServer[c]).Type = PacketTypeQualityControl
    /\ Len(Head(toServer[c]).Payload) >= 1

Clamp(b) == IF b > 100 THEN 100 ELSE b

\* C22: every server-side session has quality level 80 from its creation until
\* its first QualityControl packet, and after any QualityControl packets its
\* level lies in 0..100, equal to the last first payload byte clamped to that
\* range.
C22_QualityStep ==
    \A c \in Conns :
       /\ (c \notin DOMAIN clients /\ c \in DOMAIN clients')
             => clients'[c].qualityLevel = 80
       /\ (c \in DOMAIN clients /\ c \in DOMAIN clients')
             => clients'[c].qualityLevel =
                   IF QualityRead(c) THEN Clamp(Head(toServer[c]).Payload[1])
                   ELSE clients[c].qualityLevel

C22_QualityInRange ==
    /\ [](\A c \in DOMAIN clients : clients[c].qualityLevel \in 0..100)
    /\ [][C22_QualityStep]_vars

\* C23: a QualityControl packet received from one client changes only that
\* session's quality level: every other session is unchanged, and so are the
\* monitor map and the active flag of the same session.
C23_QualityStep ==
    \A c \in Conns :
       QualityRead(c)
          => /\ DOMAIN clients' = DOMAIN clients
             /\ \A k \in DOMAIN clients \ {c} : clients'[k] = clients[k]
             /\ c \in DOMAIN clients
                   => /\ clients'[c].monitorMap = clients[c].monitorMap
                      /\ clients'[c].active = clients[c].active

C23_QualityOnlyOwnSession == [][C23_QualityStep]_vars

C23_Witness ==
    /\ DOMAIN clients = Conns
    /\ clients["raw"].qualityLevel = 50
    /\ clients["client"].qualityLevel = 80
    /\ clients["client"].monitorMap # EmptyMap


\* The reader of session c takes a Ping off its connection in this step
PingRead(c) ==
    /\ hpc[c] = "read"
    /\ hpc'[c] = "loop"
    /\ toServer[c] # <<>>
    /\ toServer'[c] = Tail(toServer[c])
    /\ Head(toServer[c]).Type = PacketTypePing

\* C24: for every Ping the per-session reader receives it writes one Pong on
\* the same connection with the Ping's payload, in the order of the Pings,
\* before and after QualityControl packets.  The Pong is appended to the
\* session's own connection in the step that takes the Ping (so Pongs leave in
\* the order the Pings arrived), nothing goes to another connection, and on a
\* connection already closed the write fails and is dropped.
C24_PingStep ==
    \A c \in Conns :
       PingRead(c)
          => /\ \A k \in Conns \ {c} : toClient'[k] = toClient[k]
             /\ toClient'[c] =
                   IF connClosed[c] \/ peerClosed[c] THEN toClient[c]
                   ELSE Append(toClient[c],
                               [Type |-> PacketTypePong, Timestamp |-> Now,
                                Length |-> U32(Len(Head(toServer[c]).Payload)),
                                Payload |-> Head(toServer[c]).Payload])

C25_MutexStep ==
    /\ DOMAIN clients' # DOMAIN clients => clientsMutex = 0
    /\ \A m \in Workers :
          (wpc[m] \in {"range", "write"} \/ wpc'[m] \in {"range", "write"})
             => (clientsMutex = m \/ clientsMutex' = m)
    /\ \A c \in DOMAIN clients \cap DOMAIN clients' :
          clients'[c].active # clients[c].active => clientsMutex \in Workers
    /\ \A c \in Conns :
          (hpc[c] = "loop" /\ hpc'[c] # "loop") => clientsMutex = 0

C25_RegistryUnderMutex == [][C25_MutexStep]_vars


\* C29: a capture worker acquires and encodes a frame only in an iteration in
\* which at least one active client session exists; with no active session
\* (also when every registered session is marked inactive) it sleeps and
\* retries without capturing.  A worker leaves its gate for the dispatch only
\* with a captured and encoded frame.
C29_GateStep ==
    \A m \in Workers :
       (wpc[m] = "gate" /\ wpc'[m] = "lock")
          => \E c \in DOMAIN clients : clients[c].active

C29_CaptureOnlyForActive == [][C29_GateStep]_vars


\* C26: the display task never holds the FrameStore mutex while it decodes an
\* image or makes a rendering call: it takes the mutex, obtains the frame bytes
\* and releases the mutex first, so the network task's store of a new frame is
\* never blocked for the duration of a decode or render.
C26_NoDecodeUnderMutex ==
    disp.pc = "decode"
        => /\ frameMutex # "display"
           /\ (net.pc = "idle" /\ net.stored < MaxFrames) => ENABLED NetLock

\* C27: every write to a FrameStore entry is made while the store mutex is
\* held, also the writes made when the monitor map is built or rebuilt, so no
\* FrameStore write runs concurrently with a display-task read.
C27_StoreStep ==
    fStore' # fStore => (frameMutex = "net" /\ disp.pc # "decode")

C27_StoreWritesUnderMutex == [][C27_StoreStep]_vars


\* The capture calls of a worker's last turn
RectCalls(w) == {i \in DOMAIN cap[w].last.calls : cap[w].last.calls[i][1] = "CaptureRect"}

OutsideEnvelope(monitor) ==
    \/ monitor.PositionX[1] > 0 \/ monitor.PositionX[2] > 10000
    \/ monitor.PositionY[1] > 0 \/ monitor.PositionY[2] > 10000

FailedCalls(w) ==
    {i \in DOMAIN cap[w].last.calls :
        cap[w].last.calls[i][4] # "alternative" /\ ~cap[w].last.calls[i][3]}

\* C30: when a capture attempt fails the worker retries on the index-based
\* path at most once in that turn; if that fails too or no alternate path
\* applies it hands on no frame, backs off and goes on with the loop; a capture
\* or encode error never ends a worker and never touches another worker.
C30_Turn ==
    \A w \in DOMAIN cap :
       LET calls == cap[w].last.calls
           retries == {i \in DOMAIN calls : calls[i][4] = "fallback"}
       IN  /\ Cardinality(retries) <= 1
           /\ \A i \in retries :
                 /\ i = 2
                 /\ 1 \in FailedCalls(w)
                 /\ calls[i][1] = "CaptureDisplay"
                 /\ calls[i][2] = U32ToNat(cap[w].monitor.ID) - 1
           /\ \A i \in FailedCalls(w) : i = Len(calls) \/ i + 1 \in retries
           /\ Len(calls) \in FailedCalls(w)
                => /\ cap[w].last.frame = <<>>
                   /\ cap[w].last.sleep = 1000
           /\ cap[w].last.frameCount < MaxTurns => ENABLED CaptureTurn(w)

C30_OtherWorkers ==
    \A w \in DOMAIN cap :
       cap'[w] # cap[w] => \A v \in DOMAIN cap \ {w} : cap'[v] = cap[v]

C30_CaptureErrorHandled == []C30_Turn /\ [][C30_OtherWorkers]_vars

C30_Witness ==
    \E w \in DOMAIN cap :
       /\ cap[w].last.calls = << <<"CaptureRect", 0, FALSE, "first">>,
                                 <<"CaptureDisplay", w - 1, FALSE, "fallback">> >>
       /\ cap[w].last.frame = <<>>
       /\ cap[w].last.sleep = 1000
       /\ \E v \in DOMAIN cap \ {w} : cap[v].last.frame # <<>>


\* The four bytes of a 32-bit id, least significant first
LittleEndian(id) == <<id[2] % 256, id[2] \div 256, id[1] % 256, id[1] \div 256>>

\* A VideoFrame packet as worker m emits it
FrameOf(packet, m) ==
    LET image == EncodedImage(monitors.Monitors[m])
    IN  /\ packet.Type = PacketTypeVideoFrame
        /\ Len(packet.Payload) = 4 + Len(image)
        /\ SubSeq(packet.Payload, 1, 4) = LittleEndian(monitors.Monitors[m].ID)
        /\ SubSeq(packet.Payload, 5, Len(packet.Payload)) = image
        /\ packet.Length = <<0, 4 + Len(image)>>

\* C31: every VideoFrame packet the server writes has as payload the 4-byte
\* little-endian id of the emitting worker's monitor followed by the encoded
\* image, with the header's length equal to 4 plus the image length; a packet
\* already handed to a connection is not altered by what the worker does next.
C31_FrameStep ==
    /\ \A m \in Workers, c \in Conns :
          (wpc[m] = "write" /\ wCur[m] = c /\ wCur'[m] = "none"
             /\ Len(toClient'[c]) = Len(toClient[c]) + 1)
             => FrameOf(toClient'[c][Len(toClient'[c])], m)
    /\ \A c \in Conns :
          \/ toClient[c] # <<>> /\ toClient'[c] = Tail(toClient[c])
          \/ /\ Len(toClient'[c]) >= Len(toClient[c])
             /\ SubSeq(toClient'[c], 1, Len(toClient[c])) = toClient[c]

C31_FramesInFlight ==
    \A c \in Conns : \A i \in DOMAIN toClient[c] :
       (dialled[c] /\ toClient[c][i].Type = PacketTypeVideoFrame)
          => \E m \in Workers : FrameOf(toClient[c][i], m)

C31_FramePayload == []C31_FramesInFlight /\ [][C31_FrameStep]_vars

C31_Witness ==
    /\ toClient["client"] # <<>>
    /\ 2 \in Workers
    /\ FrameOf(Head(toClient["client"]), 2)
    /\ wpc[2] # "write"


\* Bytes the receive loop consumed in calls of DecodePacket that returned no
\* packet: only a call ended by a timeout leaves any
Dropped == cDelivered - Len(cAvail) - dConsumed - EncodedLen(cOut, Len(cOut))

\* C32: in the receive loop that sets a read deadline a timeout of DecodePacket
\* neither stops the client nor ends the loop, which goes on to its next
\* DecodePacket; any other read error stops the client and ends the loop.
C32_Step ==
    /\ (dConsumed > 0 /\ dConsumed' = 0 /\ cOut' = cOut)
          => (~dErr' /\ ~cliStopped' /\ dField' = "Type" /\ dGot' = 0)
    /\ (~dErr /\ dErr') => (cEOF /\ cAvail = <<>> /\ cliStopped')
    /\ (~cliStopped /\ cliStopped') => (dErr' /\ cEOF)

C32_TimeoutNotFatal == [][C32_Step]_vars

\* A call was ended by a timeout after it had consumed bytes, the loop went on,
\* and the end of the stream then stopped the client
C32_Witness == Dropped > 0 /\ dErr /\ cliStopped /\ cEOF

\* C37: with timeouts expiring after part of a packet was consumed, the packets
\* DecodePacket returns are still the packets sent, in order, none lost and
\* none corrupted.
C37_AlignedAcrossTimeouts ==
    /\ Len(cOut) <= Len(cPackets)
    /\ \A i \in 1..Len(cOut) : i <= Len(cPackets) => cOut[i] = cPackets[i]
    /\ (cAvail = <<>> /\ ~dErr /\ dConsumed = 0) => Len(cOut) = WholeDelivered


\* C33: on every connection the server writes no VideoFrame packet before it
\* has received and decoded that client's MonitorConfig: a session registered
\* before its handshake completes gets no frame while its map is still empty.
C33_FrameStep ==
    \A m \in Workers, c \in Conns :
       (wpc[m] = "write" /\ wCur[m] = c /\ wCur'[m] = "none"
        /\ Len(toClient'[c]) = Len(toClient[c]) + 1)
          => /\ monitors.Monitors[m].ID \in everMapped[c]
             /\ firstRead[c] # NilPacket

C33_NoneInFlight ==
    \A c \in Conns : \A i \in DOMAIN toClient[c] :
       (dialled[c] /\ toClient[c][i].Type = PacketTypeVideoFrame)
          => everMapped[c] # {}

C33_NoFrameBeforeConfig == []C33_NoneInFlight /\ [][C33_FrameStep]_vars

\* A frame is on its way to a peer whose first MonitorConfig the server mapped,
\* behind nothing: the handshake went out first and was read
C33_Witness ==
    /\ toClient["raw"] # <<>>
    /\ Head(toClient["raw"]).Type = PacketTypeVideoFrame
    /\ firstToClient["raw"].Type = PacketTypeHandshake
    /\ everMapped["raw"] # {}


\* C34: a session once marked inactive never becomes active again, and no
\* capture worker writes another VideoFrame packet on its connection.
C34_Step ==
    \A c \in DOMAIN clients :
       (~clients[c].active /\ c \in DOMAIN clients') => ~clients'[c].active

C34_NoWrite ==
    \A m \in Workers :
       wpc[m] = "write" => (wCur[m] \in DOMAIN clients /\ clients[wCur[m]].active)

C34_InactiveStaysInactive == []C34_NoWrite /\ [][C34_Step]_vars

\* A worker that found one session inactive in this round of its dispatch
\* passed over it and is writing to the other one
C34_Witness ==
    /\ "raw" \in DOMAIN clients /\ "client" \in DOMAIN clients
    /\ ~clients["raw"].active
    /\ \E m \in Workers :
          /\ wpc[m] = "write" /\ wCur[m] = "client"
          /\ "raw" \notin wTodo[m]
          /\ wFailed[m] = {}


\* C35: the per-session reader never replaces or writes a session's monitor map
\* while a capture worker's dispatch, holding s.clientsMutex, still has the
\* lookup in that map before it.
C35_Step ==
    \A c \in DOMAIN clients :
       (c \in DOMAIN clients' /\ clients'[c].monitorMap # clients[c].monitorMap)
          => ~\E m \in Workers :
                 clientsMutex = m /\ wpc[m] = "range" /\ c \in wTodo[m]

C35_MapRebuildExcludesLookup == [][C35_Step]_vars


\* C36: Stop may be called more than once and from more than one task: no
\* sequence of calls of Client.Stop or Server.Stop closes the stop channel a
\* second time, and none fails.
C36_StopNeverFails == stopPc # "panic" /\ cliPhase # "panic" /\ dispPc # "panic"


\* The length check of DecodeMonitorConfig as arithmetic without wrap-around:
\* the data are shorter than a count, or than 4 + 24 * count
TooShort(data) ==
    \/ Len(data) < CountSize
    \/ LET count == Uint32(SubSeq(data, 1, CountSize))
       IN  count[1] > 0 \/ Len(data) < CountSize + MonitorInfoSize * count[2]

\* C38: DecodeMonitorConfig returns an error whenever len(data) is less than
\* 4 + 24 * count computed without wrap-around, and otherwise returns exactly
\* count monitors read from within data: no large count passes the length check.
C38_LengthCheckNoWrap ==
    rtConfig # NoResult =>
       IF TooShort(cAvail)
       THEN rtConfig.err = "ErrUnexpectedEOF"
       ELSE LET count == Uint32(SubSeq(cAvail, 1, CountSize))
            IN  /\ rtConfig.err = "nil"
                /\ rtConfig.config.MonitorCount = count
                /\ Len(rtConfig.config.Monitors) = count[2]
                /\ \A i \in 1..count[2] :
                      rtConfig.config.Monitors[i].ID =
                         Uint32(SubSeq(cAvail, 24 * i - 19, 24 * i - 16))


\* The handshake is complete on both sides: the client is in its receive loop
\* and the server has ended mapMonitors for the client's MonitorConfig
HandshakeComplete ==
    /\ dialled["client"]
    /\ cliPhase = "running"
    /\ "client" \in DOMAIN clients
    /\ hLocal["client"].mapped
    /\ hpc["client"] # "mapLoop"

\* C39: after a completed handshake, with no later MonitorConfig in either
\* direction, the server's map for the session and the client's own map are the
\* same function, and every VideoFrame the server sends to the client carries
\* a server monitor id the client's map contains.
C39_SameMap ==
    /\ HandshakeComplete => clients["client"].monitorMap = monitorMap
    /\ (dialled["client"] /\ cliPhase = "running") =>
          \A i \in DOMAIN toClient["client"] :
             toClient["client"][i].Type = PacketTypeVideoFrame
                => BytesToUint32(toClient["client"][i].Payload) \in DOMAIN monitorMap

\* Both sides have two monitors mapped and a frame of the second is in flight
C39_Witness ==
    /\ HandshakeComplete
    /\ Cardinality(DOMAIN monitorMap) = 2
    /\ toClient["client"] # <<>>
    /\ Head(toClient["client"]).Type = PacketTypeVideoFrame
    /\ BytesToUint32(Head(toClient["client"]).Payload) = U32(2)


\* The local monitor ids a map leads to
Targets(map) == {map[k] : k \in DOMAIN map}

\* The receive loop handles a MonitorConfig packet that decodes
RemapStep ==
    /\ cliPhase = "running"
    /\ toClient["client"] # <<>>
    /\ Head(toClient["client"]).Type = PacketTypeMonitorConfig
    /\ DecodeMonitorConfig(Head(toClient["client"]).Payload).err = "nil"
    /\ toClient'["client"] = Tail(toClient["client"])

\* No non-empty frame is left under a local id the new map does not lead to
C40_NoStaleFrame ==
    RemapStep =>
       \A id \in DOMAIN frameBuffers' :
          frameBuffers'[id] # <<>> => id \in Targets(monitorMap')

\* The frame of a local monitor that stays mapped is kept
C40_FrameKept ==
    RemapStep =>
       \A id \in Targets(monitorMap) \cap Targets(monitorMap') :
          id \in DOMAIN frameBuffers => frameBuffers'[id] = frameBuffers[id]

\* C40: after the client rebuilds its map on a mid-session MonitorConfig the
\* frame store holds no non-empty frame for a local id that is no target of the
\* new map, and the frame of a local monitor that stays mapped is not lost.
C40_RemapKeepsStore == [][C40_NoStaleFrame /\ C40_FrameKept]_vars

====
